---------------------------- MODULE Spec2Model ----------------------------
(***************************************************************************)
(* Model of the SkySentry identity tracking core                           *)
(* (src/app/ultralytics/yoloe_rt.py; yoloe_rt_smoothed.py carries an       *)
(* identical IdentityManager).                                             *)
(*                                                                         *)
(* Conventions                                                             *)
(*  - Python lists are 0-based, TLA+ sequences 1-based: detection index i  *)
(*    of the source is position i+1 of `dets`, and idx_to_gid is a         *)
(*    function whose domain is a subset of 1..Len(dets).                   *)
(*  - self.active is a dict: it is modelled as the sequence of its items   *)
(*    in insertion order, each item carrying its key in field gid (this is *)
(*    exactly the pool list assign builds from self.active.items()).       *)
(*  - _center_dist returns hypot(dx, dy); the model keeps the squared      *)
(*    distance dx*dx + dy*dy and compares it with the squared radius.      *)
(*    Both comparisons of the source (dist <= radius, dist < best_dist)    *)
(*    are between non-negative numbers, so squaring preserves them.        *)
(***************************************************************************)
EXTENDS Integers, Sequences, FiniteSets

VARIABLES
    active,      \* IdentityManager.active, items in insertion order
    inactive,    \* IdentityManager.inactive
    next_gid,    \* IdentityManager.next_gid
    cls_group,   \* IdentityManager.cls_group: class index -> group id
    session,     \* self.classes, IdentityManager.reid_max_radius_px and
                 \* .reid_max_frames, and the intrinsics fx, fy, cx, cy
                 \* (absent until the first frame)
    rt_frame_idx, \* YoloeRealtime.frame_idx
    hist_px,     \* _TrackSmoother.hist_px: gid -> entries <<frame, cx, cy>>
    hist_w,      \* _TrackSmoother.hist_w: gid -> entries <<frame, Xw, Yw>>
    spawned,     \* history: the ids _new_gid has returned, in order
    call,        \* observation of the last session operation (inputs,
                 \* result, pre-state)
    scall,       \* observation of the last smoother call since then
    other        \* a second YoloeRealtime instance: its whole state and
                 \* the observation of its last operation

vars == <<active, inactive, next_gid, cls_group, session, rt_frame_idx,
          hist_px, hist_w, spawned, call, scall, other>>

(***************************************************************************)
(* Bounds of the model.                                                    *)
(***************************************************************************)
\* the reid_max_radius_px the sessions of the bounded runs are built with
Radius == 5
\* the reid_max_frames the sessions of the bounded runs are built with
Window == 2
\* largest number of detections in one frame
MaxDets == 2
\* frame indices passed to assign range over 0..MaxFrame
MaxFrame == 3
\* successive frame indices differ by 1..MaxStep
MaxStep == 2
\* assign is not called when it would push next_gid beyond MaxGid
MaxGid == 3

(***************************************************************************)
(* Configuration.                                                          *)
(***************************************************************************)
\* self.reid_max_radius_px
reid_max_radius_px == session.reid_max_radius_px

\* self.reid_max_frames
reid_max_frames == session.reid_max_frames

DEFAULT_CLASSES ==
    << "white bottle", "paper sign in hand", "paper air plane",
       "black bottle", "paper airplane in hand" >>

DEFAULT_CONTINUITY_GROUPS ==
    << {"paper air plane", "paper airplane in hand"},
       {"white bottle", "black bottle"} >>

\* name_to_idx = {name: i for i, name in enumerate(classes)}: a later
\* duplicate of a name overwrites an earlier one.
name_to_idx(classes) ==
    [n \in {classes[k] : k \in 1..Len(classes)} |->
        (CHOOSE k \in 1..Len(classes) :
            /\ classes[k] = n
            /\ \A m \in 1..Len(classes) : classes[m] = n => m <= k) - 1]

\* mutant: a group with a single known member is materialized as well
RECURSIVE build_cls_group_singletons(_, _, _, _, _)
build_cls_group_singletons(classes, continuity_groups, k, map, group_id) ==
    IF k > Len(continuity_groups) THEN map
    ELSE LET n2i     == name_to_idx(classes)
             indices == {n2i[n] : n \in continuity_groups[k] \cap DOMAIN n2i}
         IN  IF Cardinality(indices) >= 1
             THEN build_cls_group_singletons(classes, continuity_groups, k + 1,
                     [ci \in DOMAIN map \cup indices |->
                         IF ci \in indices THEN group_id ELSE map[ci]],
                     group_id + 1)
             ELSE build_cls_group_singletons(classes, continuity_groups, k + 1,
                                             map, group_id)

\* The loop of IdentityManager.__init__ over continuity_groups, from group
\* number k on, with the map built so far and the next group id.
RECURSIVE build_cls_group(_, _, _, _, _)
build_cls_group(classes, continuity_groups, k, map, group_id) ==
    IF k > Len(continuity_groups) THEN map
    ELSE LET n2i     == name_to_idx(classes)
             indices == {n2i[n] : n \in continuity_groups[k] \cap DOMAIN n2i}
         IN  IF Cardinality(indices) >= 2
             THEN build_cls_group(classes, continuity_groups, k + 1,
                     [ci \in DOMAIN map \cup indices |->
                         IF ci \in indices THEN group_id ELSE map[ci]],
                     group_id + 1)
             ELSE build_cls_group(classes, continuity_groups, k + 1, map, group_id)

EmptyMap == [x \in {} |-> 0]

\* None
Absent == <<>>

\* a value that is not None
Present(v) == <<v>>

(***************************************************************************)
(* IdentityManager helpers.                                                *)
(***************************************************************************)
\* mutant: the continuity groups are ignored
same_class_only(ci_a, ci_b) == ci_a = ci_b

same_continuity_class(ci_a, ci_b) ==
    IF ci_a = ci_b THEN TRUE
    ELSE /\ ci_a \in DOMAIN cls_group
         /\ ci_b \in DOMAIN cls_group
         /\ cls_group[ci_a] = cls_group[ci_b]

\* squared _center_dist
center_dist2(a, b) ==
    (a[1] - b[1]) * (a[1] - b[1]) + (a[2] - b[2]) * (a[2] - b[2])

\* mutant: a record at exactly the radius is out of reach
within_radius_strict(d2) == d2 < reid_max_radius_px * reid_max_radius_px

\* dist <= self.reid_max_radius_px
within_radius(d2) == d2 <= reid_max_radius_px * reid_max_radius_px

\* mutant: the upper end of the age window is not tested
age_skipped_negative_only(age) == age < 0

\* mutant: no record is skipped for its age
age_never_skipped(age) == FALSE

\* age < 0 or age > self.reid_max_frames  (the record is skipped)
age_skipped(age) == age < 0 \/ age > reid_max_frames

\* mutant: dist <= best_dist, so that the last of several nearest wins
closer_or_equal(d2, best) == ~best.found \/ d2 <= best.dist2

\* dist < best_dist, best_dist starting at +infinity
closer(d2, best) == ~best.found \/ d2 < best.dist2

NoBest == [found |-> FALSE, gid |-> 0, dist2 |-> 0, pos |-> 0]

\* The scan loop of _match_pool from pool position idx on.
RECURSIVE scan_pool(_, _, _, _, _)
scan_pool(det, pool, frame_idx, idx, best) ==
    IF idx > Len(pool) THEN best
    ELSE LET item == pool[idx]
             age  == frame_idx - item.last_frame
             d2   == center_dist2(det.center, item.center)
         IN  IF age_skipped(age)
                 THEN scan_pool(det, pool, frame_idx, idx + 1, best)
             ELSE IF ~same_continuity_class(item.cls, det.cls_idx)
                 THEN scan_pool(det, pool, frame_idx, idx + 1, best)
             ELSE IF within_radius(d2) /\ closer(d2, best)
                 THEN scan_pool(det, pool, frame_idx, idx + 1,
                        [found |-> TRUE, gid |-> item.gid, dist2 |-> d2, pos |-> idx])
             ELSE scan_pool(det, pool, frame_idx, idx + 1, best)

\* mutant: the matched item stays in the pool
pop_keeps_item(pool, pos) == pool

\* pool.pop(pos)
pop_at(pool, pos) ==
    [k \in 1..(Len(pool) - 1) |-> IF k < pos THEN pool[k] ELSE pool[k + 1]]

\* self.active[gid] = {...}: an existing key keeps its place, a new key
\* goes to the end.
active_put(act, rec) ==
    IF \E k \in 1..Len(act) : act[k].gid = rec.gid
    THEN [k \in 1..Len(act) |-> IF act[k].gid = rec.gid THEN rec ELSE act[k]]
    ELSE Append(act, rec)

\* mutant: the matched record takes the class of the detection
match_pool_takes_det_class(det, pool, frame_idx, act) ==
    LET best == scan_pool(det, pool, frame_idx, 1, NoBest)
    IN  IF ~best.found
        THEN [found |-> FALSE, gid |-> 0, pool |-> pool, active |-> act]
        ELSE [found  |-> TRUE,
              gid    |-> best.gid,
              pool   |-> pop_at(pool, best.pos),
              active |-> active_put(act,
                           [gid |-> best.gid, cls |-> det.cls_idx,
                            bbox |-> det.bbox, center |-> det.center,
                            last_frame |-> frame_idx])]

\* _match_pool(det, pool, frame_idx) on the manager state `act`: the
\* returned gid (found = FALSE for None), the pool after pool.pop and
\* self.active after the write.
match_pool(det, pool, frame_idx, act) ==
    LET best == scan_pool(det, pool, frame_idx, 1, NoBest)
    IN  IF ~best.found
        THEN [found |-> FALSE, gid |-> 0, pool |-> pool, active |-> act]
        ELSE LET item == pool[best.pos]
             IN  [found  |-> TRUE,
                  gid    |-> best.gid,
                  pool   |-> pop_at(pool, best.pos),
                  active |-> active_put(act,
                               [gid |-> best.gid, cls |-> item.cls,
                                bbox |-> det.bbox, center |-> det.center,
                                last_frame |-> frame_idx])]

\* mutant: the used_gids test is dropped
accepts_without_used_check(m, used_gids) == m.found

\* gid is not None and gid not in used_gids
accepts(m, used_gids) == m.found /\ m.gid \notin used_gids

\* idx_to_gid[i] = gid
map_put(idx_to_gid, i, gid) ==
    [k \in DOMAIN idx_to_gid \cup {i} |-> IF k = i THEN gid ELSE idx_to_gid[k]]

\* mutant: the active pool is not tried
active_phase_skipped(dets, frame_idx, i, st) == st

\* "Try active first": the loop over dets from position i on.  The pool
\* handed to _match_pool is a fresh list of the current self.active items.
RECURSIVE active_phase(_, _, _, _)
active_phase(dets, frame_idx, i, st) ==
    IF i > Len(dets) THEN st
    ELSE LET m == match_pool(dets[i], st.active, frame_idx, st.active)
         IN  IF accepts(m, st.used_gids)
             THEN active_phase(dets, frame_idx, i + 1,
                     [st EXCEPT !.active = m.active,
                                !.used_gids = @ \cup {m.gid},
                                !.idx_to_gid = map_put(@, i, m.gid)])
             ELSE active_phase(dets, frame_idx, i + 1,
                     [st EXCEPT !.active = m.active])

\* "Then inactive": the pool is self.inactive itself, so pool.pop removes
\* the record from it.
RECURSIVE inactive_phase(_, _, _, _)
inactive_phase(dets, frame_idx, i, st) ==
    IF i > Len(dets) THEN st
    ELSE IF i \in DOMAIN st.idx_to_gid
        THEN inactive_phase(dets, frame_idx, i + 1, st)
    ELSE LET m == match_pool(dets[i], st.inactive, frame_idx, st.active)
         IN  IF accepts(m, st.used_gids)
             THEN inactive_phase(dets, frame_idx, i + 1,
                     [st EXCEPT !.active = m.active,
                                !.inactive = m.pool,
                                !.used_gids = @ \cup {m.gid},
                                !.idx_to_gid = map_put(@, i, m.gid)])
             ELSE inactive_phase(dets, frame_idx, i + 1,
                     [st EXCEPT !.active = m.active,
                                !.inactive = m.pool])

\* mutant: the counter is not advanced
new_gid_no_increment(det, frame_idx, st) ==
    [st EXCEPT !.active = active_put(@,
                            [gid |-> st.next_gid, cls |-> det.cls_idx,
                             bbox |-> det.bbox, center |-> det.center,
                             last_frame |-> frame_idx]),
               !.spawned = Append(@, st.next_gid)]

\* _new_gid(cls_idx, bbox, center, frame_idx)
new_gid(det, frame_idx, st) ==
    [st EXCEPT !.next_gid = @ + 1,
               !.active = active_put(@,
                            [gid |-> st.next_gid, cls |-> det.cls_idx,
                             bbox |-> det.bbox, center |-> det.center,
                             last_frame |-> frame_idx]),
               !.spawned = Append(@, st.next_gid)]

\* "New IDs"
RECURSIVE new_phase(_, _, _, _)
new_phase(dets, frame_idx, i, st) ==
    IF i > Len(dets) THEN st
    ELSE IF i \in DOMAIN st.idx_to_gid
        THEN new_phase(dets, frame_idx, i + 1, st)
    ELSE LET gid == st.next_gid
             s2  == new_gid(dets[i], frame_idx, st)
         IN  new_phase(dets, frame_idx, i + 1,
                [s2 EXCEPT !.used_gids = @ \cup {gid},
                           !.idx_to_gid = map_put(@, i, gid)])

\* mutant: the unmatched records stay in active
demote_skipped(st) == st

\* mutant: the record is appended to inactive without being popped from
\* active
demote_keeps_active(st) ==
    LET updated == {st.idx_to_gid[i] : i \in DOMAIN st.idx_to_gid}
        NotUpdated(rec) == rec.gid \notin updated
    IN  [st EXCEPT !.inactive = @ \o SelectSeq(st.active, NotUpdated)]

\* mutant: the unmatched records are popped from active and lost
demote_loses_record(st) ==
    LET updated == {st.idx_to_gid[i] : i \in DOMAIN st.idx_to_gid}
        IsUpdated(rec) == rec.gid \in updated
    IN  [st EXCEPT !.active = SelectSeq(st.active, IsUpdated)]

\* "Move unmatched actives to inactive": in the order of active's keys
demote(st) ==
    LET updated == {st.idx_to_gid[i] : i \in DOMAIN st.idx_to_gid}
        IsUpdated(rec) == rec.gid \in updated
        NotUpdated(rec) == rec.gid \notin updated
    IN  [st EXCEPT !.active = SelectSeq(st.active, IsUpdated),
                   !.inactive = @ \o SelectSeq(st.active, NotUpdated)]

\* mutant: nothing is pruned
prune_keeps_stale(frame_idx, st) == st

\* mutant: the window of the prune is one frame longer
prune_one_frame_late(frame_idx, st) ==
    LET Fresh(it) == (frame_idx - it.last_frame) <= reid_max_frames + 1
    IN  [st EXCEPT !.inactive = SelectSeq(@, Fresh)]

\* "prune stale"
prune(frame_idx, st) ==
    LET Fresh(it) == (frame_idx - it.last_frame) <= reid_max_frames
    IN  [st EXCEPT !.inactive = SelectSeq(@, Fresh)]

\* the active phase over the detections that have no id yet
RECURSIVE active_phase_of_the_rest(_, _, _, _)
active_phase_of_the_rest(dets, frame_idx, i, st) ==
    IF i > Len(dets) THEN st
    ELSE IF i \in DOMAIN st.idx_to_gid
        THEN active_phase_of_the_rest(dets, frame_idx, i + 1, st)
    ELSE LET m == match_pool(dets[i], st.active, frame_idx, st.active)
         IN  IF accepts(m, st.used_gids)
             THEN active_phase_of_the_rest(dets, frame_idx, i + 1,
                     [st EXCEPT !.active = m.active,
                                !.used_gids = @ \cup {m.gid},
                                !.idx_to_gid = map_put(@, i, m.gid)])
             ELSE active_phase_of_the_rest(dets, frame_idx, i + 1,
                     [st EXCEPT !.active = m.active])

\* mutant: the inactive pool is tried before the active pool
assign_inactive_first(frame_idx, dets, im) ==
    LET st0 == [active |-> im.active, inactive |-> im.inactive,
                next_gid |-> im.next_gid, spawned |-> im.spawned,
                used_gids |-> {}, idx_to_gid |-> EmptyMap]
        st1 == inactive_phase(dets, frame_idx, 1, st0)
        st2 == active_phase_of_the_rest(dets, frame_idx, 1, st1)
        st3 == new_phase(dets, frame_idx, 1, st2)
        st4 == demote(st3)
    IN  prune(frame_idx, st4)

\* mutant: the "New IDs" loop is missing
assign_without_new_ids(frame_idx, dets, im) ==
    LET st0 == [active |-> im.active, inactive |-> im.inactive,
                next_gid |-> im.next_gid, spawned |-> im.spawned,
                used_gids |-> {}, idx_to_gid |-> EmptyMap]
        st1 == active_phase(dets, frame_idx, 1, st0)
        st2 == inactive_phase(dets, frame_idx, 1, st1)
        st4 == demote(st2)
    IN  prune(frame_idx, st4)

\* IdentityManager.assign(frame_idx, dets) from manager state im
assign(frame_idx, dets, im) ==
    LET st0 == [active |-> im.active, inactive |-> im.inactive,
                next_gid |-> im.next_gid, spawned |-> im.spawned,
                used_gids |-> {}, idx_to_gid |-> EmptyMap]
        st1 == active_phase(dets, frame_idx, 1, st0)
        st2 == inactive_phase(dets, frame_idx, 1, st1)
        st3 == new_phase(dets, frame_idx, 1, st2)
        st4 == demote(st3)
    IN  prune(frame_idx, st4)

(***************************************************************************)
(* Inputs.                                                                 *)
(***************************************************************************)
\* detection centers: pairwise distances 5 (= radius), 5 and sqrt(50)
Points == { <<1, 1>>, <<4, 5>>, <<8, 2>> }

\* class indices the detector reports: 0 and 1 are not continuity-compatible
DetClasses == {0, 1}

\* a detection dict as _parse_detections builds it (label and mask are not
\* read by the IdentityManager)
Det(ci, c) ==
    [cls_idx |-> ci,
     bbox    |-> <<c[1] - 1, c[2] - 1, c[1] + 1, c[2] + 1>>,
     center  |-> c]

\* the ordered detection lists of at most n detections
DetLists(classes, points, n) ==
    UNION {[1..k -> {Det(ci, c) : ci \in classes, c \in points}] : k \in 0..n}

(***************************************************************************)
(* State machine.                                                          *)
(***************************************************************************)
Manager == [active |-> active, inactive |-> inactive,
            next_gid |-> next_gid, spawned |-> spawned]

NoCall == [op |-> "init", frame_idx |-> 0, dets |-> <<>>, ret |-> EmptyMap,
           pre |-> [active |-> <<>>, inactive |-> <<>>, next_gid |-> 0,
                    spawned |-> <<>>]]

NoSmooth == [op |-> "none"]

\* _TrackSmoother.__init__
NewSmoother ==
    /\ hist_px = EmptyMap
    /\ hist_w = EmptyMap
    /\ scall = NoSmooth

\* the state of a YoloeRealtime after __init__
NewRealtime(classes, continuity_groups, radius, frames) ==
    [active |-> <<>>, inactive |-> <<>>, next_gid |-> 0,
     cls_group |-> build_cls_group(classes, continuity_groups, 1, EmptyMap, 0),
     session |-> [classes |-> classes, reid_max_radius_px |-> radius,
                 reid_max_frames |-> frames, intrinsics |-> Absent],
     rt_frame_idx |-> 0, hist_px |-> EmptyMap, hist_w |-> EmptyMap]

\* IdentityManager.__init__(classes, continuity_groups, radius, frames),
\* with the frame counter and the smoother of the YoloeRealtime around it,
\* and a second YoloeRealtime built with the same arguments
NewManager(classes, continuity_groups, radius, frames) ==
    /\ rt_frame_idx = 0
    /\ NewSmoother
    /\ other = [rt   |-> NewRealtime(classes, continuity_groups, radius, frames),
                last |-> [op |-> "none"]]
    /\ active = <<>>
    /\ inactive = <<>>
    /\ next_gid = 0
    /\ cls_group = build_cls_group(classes, continuity_groups, 1, EmptyMap, 0)
    /\ session = [classes |-> classes, reid_max_radius_px |-> radius,
                  reid_max_frames |-> frames, intrinsics |-> Absent]
    /\ spawned = <<>>
    /\ call = NoCall

Init == NewManager(DEFAULT_CLASSES, DEFAULT_CONTINUITY_GROUPS, Radius, Window)

\* one call idman.assign(frame_idx, dets)
DoAssign(frame_idx, dets) ==
    \E st \in {assign(frame_idx, dets, Manager)} :
        /\ st.next_gid <= MaxGid
        /\ active' = st.active
        /\ inactive' = st.inactive
        /\ next_gid' = st.next_gid
        /\ spawned' = st.spawned
        /\ call' = [op |-> "assign", frame_idx |-> frame_idx, dets |-> dets,
                    ret |-> st.idx_to_gid, pre |-> Manager]
        /\ UNCHANGED <<cls_group, session, rt_frame_idx, hist_px, hist_w,
                       scall, other>>

\* the frame indices a caller passes next: 0 first, then strictly larger
\* ones (process_frame counts up by one; a caller of assign may skip)
NextFrames(step, last) ==
    IF call.op = "init" THEN {0}
    ELSE {f \in 0..last : f > call.frame_idx /\ f <= call.frame_idx + step}

Assign ==
    \E frame_idx \in NextFrames(MaxStep, MaxFrame),
       dets \in DetLists(DetClasses, Points, MaxDets) :
        DoAssign(frame_idx, dets)

Next == Assign

Spec == Init /\ [][Next]_vars

(***************************************************************************)
(* Crowded frames: up to MaxCrowd detections of one class on a line, the   *)
(* frame index counting up by one from 0 to CrowdFrames.                   *)
(***************************************************************************)
\* largest number of detections in one crowded frame
MaxCrowd == 3
\* last frame index of a crowded run
CrowdFrames == 1

\* centers on a line, 4, 3 and 4 apart
CrowdPoints == { <<1, 1>>, <<5, 1>>, <<8, 1>>, <<12, 1>> }

AssignCrowd ==
    \E frame_idx \in NextFrames(1, CrowdFrames),
       dets \in DetLists({0}, CrowdPoints, MaxCrowd) :
        DoAssign(frame_idx, dets)

NextCrowd == AssignCrowd

SpecCrowd == Init /\ [][NextCrowd]_vars

(***************************************************************************)
(* Frames of at most one detection, of any of the configured classes.      *)
(***************************************************************************)
\* the class indices of DEFAULT_CLASSES
AllClasses == 0..(Len(DEFAULT_CLASSES) - 1)

AssignOne ==
    \E frame_idx \in NextFrames(MaxStep, MaxFrame),
       dets \in DetLists(AllClasses, Points, 1) :
        DoAssign(frame_idx, dets)

NextOne == AssignOne

SpecOne == Init /\ [][NextOne]_vars

(***************************************************************************)
(* Vocabulary of the properties.                                           *)
(***************************************************************************)
Called == call.op = "assign"

\* the global ids held in a pool
Gids(pool) == {pool[k].gid : k \in 1..Len(pool)}

\* the records of both pools as assign found them
PreRecs == call.pre.active \o call.pre.inactive

\* the ids known before the call
PreGids == Gids(PreRecs)

\* the detection positions that were given a fresh id by the call
SpawnedAt == {i \in DOMAIN call.ret : call.ret[i] \notin PreGids}

(***************************************************************************)
(* C1.  assign returns a mapping defined on exactly the detection indices  *)
(* of its input: no detection is rejected, and each one is given either an *)
(* id that existed before the call or an id spawned by this call.          *)
(***************************************************************************)
C1_EveryDetectionGetsAnId ==
    Called =>
        /\ DOMAIN call.ret = 1..Len(call.dets)
        /\ \A i \in 1..Len(call.dets) :
              \/ call.ret[i] \in PreGids
              \/ call.ret[i] \in call.pre.next_gid..(next_gid - 1)

\* a frame in which one detection is matched and the other spawns
C1_Witness ==
    /\ Called
    /\ Len(call.dets) = 2
    /\ \E i, j \in DOMAIN call.ret :
          call.ret[i] \in PreGids /\ call.ret[j] \notin PreGids

(***************************************************************************)
(* C2.  Within one assign call no global id is returned for two different  *)
(* detection indices.                                                      *)
(***************************************************************************)
C2_MappingInjective ==
    Called =>
        \A i, j \in DOMAIN call.ret :
            i # j => call.ret[i] # call.ret[j]

\* two detections at the same place and of the same class in front of an
\* active track that both of them match: the second match is turned down
\* because the id is already used
C2_Witness ==
    /\ Called
    /\ Len(call.dets) = 2
    /\ call.dets[1] = call.dets[2]
    /\ call.ret[1] \in Gids(call.pre.active)

(***************************************************************************)
(* C3.  Spawned ids are 0, 1, 2, ... in this order over the whole life of  *)
(* the manager (within a frame: in detection order), no id is spawned      *)
(* twice, next_gid never decreases, and every id held in a pool is >= 0    *)
(* and < next_gid.                                                         *)
(***************************************************************************)
C3_IdsCountUpFromZero ==
    /\ Len(spawned) = next_gid
    /\ \A k \in 1..Len(spawned) : spawned[k] = k - 1
    /\ \A g \in Gids(active) \cup Gids(inactive) : g >= 0 /\ g < next_gid
    /\ Called =>
          /\ call.pre.next_gid <= next_gid
          /\ \A i, j \in SpawnedAt : i < j => call.ret[i] < call.ret[j]
          /\ \A i \in SpawnedAt : call.ret[i] >= call.pre.next_gid

\* a frame that spawns two ids after an earlier frame has spawned one
C3_Witness ==
    /\ Called
    /\ call.pre.next_gid = 1
    /\ next_gid = 3
    /\ Cardinality(SpawnedAt) = 2

(***************************************************************************)
(* C4.  The active and the inactive pool are disjoint, and no id appears   *)
(* more than once in the inactive list.                                    *)
(***************************************************************************)
C4_PoolsDisjoint ==
    /\ Gids(active) \cap Gids(inactive) = {}
    /\ \A k, l \in 1..Len(inactive) :
          k # l => inactive[k].gid # inactive[l].gid
    /\ \A k, l \in 1..Len(active) :
          k # l => active[k].gid # active[l].gid

\* a call that revives one track and demotes another
C4_Witness ==
    /\ Called
    /\ \E i \in DOMAIN call.ret : call.ret[i] \in Gids(call.pre.inactive)
    /\ Gids(call.pre.active) \cap Gids(inactive) # {}

\* the matching rule of the specification between a detection and a track
\* record at frame f: age in [0, reid_max_frames], center distance within
\* the radius, continuity-compatible class
Eligible(det, rec, f) ==
    /\ f - rec.last_frame >= 0
    /\ f - rec.last_frame <= reid_max_frames
    /\ center_dist2(det.center, rec.center)
          <= reid_max_radius_px * reid_max_radius_px
    /\ same_continuity_class(rec.cls, det.cls_idx)

\* the positions of `pool` holding a record eligible for det
EligibleIn(det, pool, f) == {k \in 1..Len(pool) : Eligible(det, pool[k], f)}

\* the positions of cand whose record is at least as near to det as every
\* other record of cand
Nearest(det, pool, cand) ==
    {k \in cand : \A l \in cand :
        center_dist2(det.center, pool[k].center)
            <= center_dist2(det.center, pool[l].center)}

\* the active ids claimed by detections before position i
ClaimedBefore(i) ==
    {call.ret[j] : j \in {h \in DOMAIN call.ret : h < i}} \cap Gids(call.pre.active)

\* the active records still unclaimed when detection i is processed and
\* eligible for it (an unclaimed record is as the call found it)
Unclaimed(i) ==
    {k \in EligibleIn(call.dets[i], call.pre.active, call.frame_idx) :
        call.pre.active[k].gid \notin ClaimedBefore(i)}

(***************************************************************************)
(* C5.  In the active-matching phase an identity given to an earlier       *)
(* detection of the frame is out of consideration: whenever some active    *)
(* track not yet claimed is eligible for a later detection, that detection *)
(* receives the id of the nearest such track.                              *)
(***************************************************************************)
C5_ClaimedTrackLeavesConsideration ==
    Called =>
        \A i \in DOMAIN call.ret :
            Unclaimed(i) # {} =>
                \E k \in Nearest(call.dets[i], call.pre.active, Unclaimed(i)) :
                    call.ret[i] = call.pre.active[k].gid

(***************************************************************************)
(* C6.  When assign(f, dets) returns, the active record stored under the   *)
(* id assigned to detection i has that detection's bbox and center and     *)
(* last_frame = f.                                                         *)
(***************************************************************************)
C6_RecordHoldsItsDetection ==
    Called =>
        \A i \in DOMAIN call.ret :
            \E k \in 1..Len(active) :
                /\ active[k].gid = call.ret[i]
                /\ active[k].bbox = call.dets[i].bbox
                /\ active[k].center = call.dets[i].center
                /\ active[k].last_frame = call.frame_idx

\* rec is the one and only record of both pools that detection i matches
\* when taken alone
OnlyMatch(i, rec) ==
    /\ Eligible(call.dets[i], rec, call.frame_idx)
    /\ \A k \in 1..Len(PreRecs) :
          Eligible(call.dets[i], PreRecs[k], call.frame_idx)
              => PreRecs[k].gid = rec.gid

(***************************************************************************)
(* C7.  If two detections of one frame would each, taken alone, match the  *)
(* same single track (the only eligible track for both, and no other       *)
(* detection of the frame is eligible for it), the one earlier in input    *)
(* order receives that track's id and the later one a different id.        *)
(***************************************************************************)
C7_FirstOfTwoWinsTheTrack ==
    Called =>
        \A k \in 1..Len(PreRecs) : \A i, j \in DOMAIN call.ret :
            ( /\ i < j
              /\ OnlyMatch(i, PreRecs[k])
              /\ OnlyMatch(j, PreRecs[k])
              /\ \A h \in DOMAIN call.ret \ {i, j} :
                    ~Eligible(call.dets[h], PreRecs[k], call.frame_idx) )
            => /\ call.ret[i] = PreRecs[k].gid
               /\ call.ret[j] # PreRecs[k].gid

\* the least element of a non-empty set of positions
First(S) == CHOOSE k \in S : \A l \in S : k <= l

\* the id of the first record in pool order among the eligible records of
\* pool nearest to det
FirstNearestGid(det, pool, f) ==
    pool[First(Nearest(det, pool, EligibleIn(det, pool, f)))].gid

InOneConfiguredGroup(a, b) ==
    \E k \in 1..Len(DEFAULT_CONTINUITY_GROUPS) :
        {DEFAULT_CLASSES[a + 1], DEFAULT_CLASSES[b + 1]}
            \subseteq DEFAULT_CONTINUITY_GROUPS[k]

\* the call met a single track and was given a single detection, of another
\* class, within the radius and the frame window of the track
OneTrackOtherClass ==
    /\ Called
    /\ Len(call.dets) = 1
    /\ Len(PreRecs) = 1
    /\ PreRecs[1].cls # call.dets[1].cls_idx
    /\ center_dist2(call.dets[1].center, PreRecs[1].center)
          <= reid_max_radius_px * reid_max_radius_px
    /\ call.frame_idx - PreRecs[1].last_frame >= 0
    /\ call.frame_idx - PreRecs[1].last_frame <= reid_max_frames

(***************************************************************************)
(* C9.  A single detection of class B within radius and frame window of a  *)
(* single track of class A # B receives the track's id if A and B are in   *)
(* the same continuity group, and a new id otherwise.                      *)
(***************************************************************************)
C9_ContinuityGroupDecides ==
    OneTrackOtherClass =>
        IF InOneConfiguredGroup(PreRecs[1].cls, call.dets[1].cls_idx)
        THEN call.ret[1] = PreRecs[1].gid
        ELSE call.ret[1] = call.pre.next_gid

\* a "black bottle" detection revives a demoted "white bottle" track
C9_Witness ==
    /\ OneTrackOtherClass
    /\ PreRecs[1].cls = 0
    /\ call.dets[1].cls_idx = 3
    /\ Len(call.pre.inactive) = 1
    /\ call.ret[1] = PreRecs[1].gid

\* no record of either pool is eligible for detection i
NoMatch(i) ==
    \A k \in 1..Len(PreRecs) :
        ~Eligible(call.dets[i], PreRecs[k], call.frame_idx)

(***************************************************************************)
(* C10.  A detection for which no record of the active or the inactive     *)
(* pool is within the frame window, within the radius and of a continuity- *)
(* compatible class receives a newly spawned id (the value of next_gid     *)
(* when it is spawned), never the id of an existing track.                 *)
(***************************************************************************)
C10_NoMatchSpawns ==
    Called =>
        \A i \in DOMAIN call.ret :
            NoMatch(i) =>
                /\ call.ret[i] \notin PreGids
                /\ call.ret[i] = call.pre.next_gid
                      + Cardinality({j \in SpawnedAt : j < i})

\* a detection standing exactly on a record of its own class that is too
\* old, next to a record in range of another class
C10_Witness ==
    /\ Called
    /\ \E i \in DOMAIN call.ret :
          /\ NoMatch(i)
          /\ \E k \in 1..Len(PreRecs) :
                /\ PreRecs[k].center = call.dets[i].center
                /\ PreRecs[k].cls = call.dets[i].cls_idx
                /\ call.frame_idx - PreRecs[k].last_frame > reid_max_frames
          /\ \E k \in 1..Len(PreRecs) :
                /\ PreRecs[k].center = call.dets[i].center
                /\ PreRecs[k].cls # call.dets[i].cls_idx
                /\ call.frame_idx - PreRecs[k].last_frame <= reid_max_frames

\* detection i was not given an active track by the active phase
UnmatchedByActive(i) == call.ret[i] \notin Gids(call.pre.active)

\* the inactive ids revived for detections before position i
RevivedBefore(i) ==
    {call.ret[j] : j \in {h \in DOMAIN call.ret : h < i}}
        \cap Gids(call.pre.inactive)

\* the positions of the inactive records still in the pool when detection i
\* is processed by the inactive phase and eligible for it
Revivable(i) ==
    {k \in EligibleIn(call.dets[i], call.pre.inactive, call.frame_idx) :
        call.pre.inactive[k].gid \notin RevivedBefore(i)}

(***************************************************************************)
(* C11.  Revival: a detection left unmatched by the active phase that has  *)
(* an eligible record in the inactive pool receives the id of the nearest  *)
(* such record; when the call returns that id is no longer in inactive and *)
(* is in active with the detection's bbox and center and last_frame equal  *)
(* to the current frame, so it was not demoted again.                      *)
(***************************************************************************)
C11_Revival ==
    Called =>
        \A i \in DOMAIN call.ret :
            (UnmatchedByActive(i) /\ Revivable(i) # {}) =>
                /\ \E k \in Nearest(call.dets[i], call.pre.inactive, Revivable(i)) :
                      call.ret[i] = call.pre.inactive[k].gid
                /\ call.ret[i] \notin Gids(inactive)
                /\ \E k \in 1..Len(active) :
                      /\ active[k].gid = call.ret[i]
                      /\ active[k].bbox = call.dets[i].bbox
                      /\ active[k].center = call.dets[i].center
                      /\ active[k].last_frame = call.frame_idx

\* a detection with two eligible inactive records at different distances
\* revives the nearer one, which is second in the inactive list
C11_Witness ==
    /\ Called
    /\ \E i \in DOMAIN call.ret :
          /\ UnmatchedByActive(i)
          /\ Cardinality(Revivable(i)) = 2
          /\ Nearest(call.dets[i], call.pre.inactive, Revivable(i)) # Revivable(i)
          /\ call.ret[i] \in Gids(call.pre.inactive)
          /\ call.ret[i] \in Gids(active)
          /\ call.ret[i] # call.pre.inactive[1].gid

(***************************************************************************)
(* Frame indices that may jump beyond the re-identification window.        *)
(***************************************************************************)
\* successive frame indices differ by 1..MaxSkip (MaxSkip > reid_max_frames)
MaxSkip == 3

AssignSkip ==
    \E frame_idx \in NextFrames(MaxSkip, MaxFrame),
       dets \in DetLists(DetClasses, Points, MaxDets) :
        DoAssign(frame_idx, dets)

NextSkip == AssignSkip

SpecSkip == Init /\ [][NextSkip]_vars

\* the ids returned by the call
Returned == {call.ret[i] : i \in DOMAIN call.ret}

\* the positions of the active records the call found and returned for no
\* detection
NotReturned == {k \in 1..Len(call.pre.active) : call.pre.active[k].gid \notin Returned}

\* the record is older than the window at the frame of the call
TooOld(rec) == call.frame_idx - rec.last_frame > reid_max_frames

(***************************************************************************)
(* C12.  Demotion: every id that is in active when assign is called and is *)
(* returned for no detection of the call is not in active when the call    *)
(* returns; unless it is older than the window (and then purged) it is in  *)
(* inactive with the class, bbox, center and last_frame it had before the  *)
(* call.                                                                   *)
(***************************************************************************)
C12_Demotion ==
    Called =>
        \A k \in NotReturned :
            LET rec == call.pre.active[k]
            IN  /\ rec.gid \notin Gids(active)
                /\ IF TooOld(rec)
                   THEN rec.gid \notin Gids(inactive)
                   ELSE \E l \in 1..Len(inactive) : inactive[l] = rec

\* a frame with detections in which one active track is matched and another
\* one, out of reach of every detection, is demoted
C12_Witness ==
    /\ Called
    /\ \E k \in NotReturned :
          /\ ~TooOld(call.pre.active[k])
          /\ call.pre.active[k].gid \in Gids(inactive)
    /\ \E i \in DOMAIN call.ret : call.ret[i] \in Gids(call.pre.active)

(***************************************************************************)
(* Frame indices in any order (a caller of assign is free to pass any      *)
(* index), on two detection centers of one class.                          *)
(***************************************************************************)
\* two centers exactly one radius apart
PairPoints == { <<1, 1>>, <<4, 5>> }

AssignAnyOrder ==
    \E frame_idx \in 0..MaxFrame,
       dets \in DetLists({0}, PairPoints, MaxDets) :
        DoAssign(frame_idx, dets)

NextAnyOrder == AssignAnyOrder

SpecAnyOrder == Init /\ [][NextAnyOrder]_vars

(***************************************************************************)
(* C13.  Garbage collection: after every assign(f, dets) every record of   *)
(* the inactive pool has f - last_frame <= reid_max_frames, and a record   *)
(* the call found with a larger age is in no pool when the call returns.   *)
(***************************************************************************)
C13_InactiveWithinWindow ==
    Called =>
        /\ \A k \in 1..Len(inactive) :
              call.frame_idx - inactive[k].last_frame <= reid_max_frames
        /\ \A k \in 1..Len(PreRecs) :
              TooOld(PreRecs[k]) =>
                  PreRecs[k].gid \notin Gids(inactive) \cup Gids(active)

\* a call that purges an inactive record whose age has passed the window
\* and keeps a younger one
C13_Witness ==
    /\ Called
    /\ \E k \in 1..Len(call.pre.inactive) :
          /\ TooOld(call.pre.inactive[k])
          /\ call.pre.inactive[k].gid \notin Gids(inactive)
    /\ \E k \in 1..Len(call.pre.inactive) :
          call.pre.inactive[k].gid \in Gids(inactive)

(***************************************************************************)
(* Non-decreasing frame indices: the same index again, or a larger one up  *)
(* to MaxSkip further on.                                                  *)
(***************************************************************************)
\* frame indices of a non-decreasing run range over 0..MonoLast
MonoLast == 4

AssignMono ==
    \E frame_idx \in {f \in 0..MonoLast : /\ f >= call.frame_idx
                                           /\ f <= call.frame_idx + MaxSkip},
       dets \in DetLists({0}, PairPoints, MaxDets) :
        DoAssign(frame_idx, dets)

NextMono == AssignMono

SpecMono == Init /\ [][NextMono]_vars

\* the ids issued so far that are in neither pool
Purged == {g \in 0..(next_gid - 1) : g \notin Gids(active) \cup Gids(inactive)}

\* the ids whose record is older than the window at frame f
Expired(f) ==
    {rec.gid : rec \in {r \in {(active \o inactive)[k] :
                                  k \in 1..Len(active \o inactive)} :
                           f - r.last_frame > reid_max_frames}}

(***************************************************************************)
(* C14.  With non-decreasing frame indices, a track whose age exceeds      *)
(* reid_max_frames at a call is not matched by it, and an id that is in    *)
(* neither pool is returned by no later call and never comes back into a   *)
(* pool: a purged identity is never revived.                               *)
(***************************************************************************)
C14_PurgedNeverRevived ==
    [][ \A g \in Purged \cup Expired(call'.frame_idx) :
            /\ g \notin {call'.ret[i] : i \in DOMAIN call'.ret}
            /\ g \in Purged' ]_vars

\* an id was purged before the call, and the call gives a fresh id to a
\* detection standing exactly on a record of its class whose age has passed
\* the window
C14_Witness ==
    /\ Called
    /\ \E g \in 0..(call.pre.next_gid - 1) : g \notin PreGids
    /\ \E i \in DOMAIN call.ret : \E k \in 1..Len(PreRecs) :
          /\ TooOld(PreRecs[k])
          /\ PreRecs[k].center = call.dets[i].center
          /\ PreRecs[k].cls = call.dets[i].cls_idx
          /\ call.ret[i] >= call.pre.next_gid

(***************************************************************************)
(* Frame indices counting up by one from 0 to StepLast, as process_frame   *)
(* passes them, with no cap on the ids: the run ends with the last frame.  *)
(***************************************************************************)
\* last frame index of a run that counts up by one
StepLast == 3

\* two centers farther apart than the radius
FarPoints == { <<1, 1>>, <<8, 2>> }

\* one call idman.assign(frame_idx, dets), whatever next_gid becomes
DoAssignAnyGid(frame_idx, dets) ==
    \E st \in {assign(frame_idx, dets, Manager)} :
        /\ active' = st.active
        /\ inactive' = st.inactive
        /\ next_gid' = st.next_gid
        /\ spawned' = st.spawned
        /\ call' = [op |-> "assign", frame_idx |-> frame_idx, dets |-> dets,
                    ret |-> st.idx_to_gid, pre |-> Manager]
        /\ UNCHANGED <<cls_group, session, rt_frame_idx, hist_px, hist_w,
                       scall, other>>

AssignStep ==
    \E frame_idx \in NextFrames(1, StepLast),
       dets \in DetLists(DetClasses, FarPoints, MaxDets) :
        DoAssignAnyGid(frame_idx, dets)

NextStep == AssignStep

SpecStep == Init /\ [][NextStep]_vars

(***************************************************************************)
(* C15.  No unbounded growth: when the frame index goes up by one per call *)
(* and a frame has at most D = MaxDets detections, after every call        *)
(* |active| <= D and |active| + |inactive| <= D * (reid_max_frames + 1).   *)
(***************************************************************************)
C15_TrackStateBounded ==
    /\ Len(active) <= MaxDets
    /\ Len(active) + Len(inactive) <= MaxDets * (reid_max_frames + 1)

\* the bound is met: MaxDets * (reid_max_frames + 1) records are held, and
\* the call has just purged a record
C15_Witness ==
    /\ Called
    /\ Len(active) = MaxDets
    /\ Len(active) + Len(inactive) = MaxDets * (reid_max_frames + 1)
    /\ \E k \in 1..Len(call.pre.inactive) :
          call.pre.inactive[k].gid \notin Gids(inactive) \cup Gids(active)

(***************************************************************************)
(* A session with the default radius and window, fed single detections of  *)
(* three classes at two nearby places, at frames 0, 5 and 400.             *)
(***************************************************************************)
\* reid_max_radius_px of YoloeRealtime.__init__
DefaultRadius == 240
\* reid_max_frames of YoloeRealtime.__init__
DefaultWindow == 180

InitDefault ==
    NewManager(DEFAULT_CLASSES, DEFAULT_CONTINUITY_GROUPS,
               DefaultRadius, DefaultWindow)

\* "white bottle", "paper sign in hand", "black bottle"
ScenarioClasses == {0, 1, 3}

\* two centers sqrt(500) apart
ScenarioPoints == { <<100, 100>>, <<120, 110>> }

ScenarioFrames == {0, 5, 400}

AssignScenario ==
    \E frame_idx \in {f \in ScenarioFrames :
                         call.op = "init" \/ f > call.frame_idx},
       dets \in DetLists(ScenarioClasses, ScenarioPoints, 1) :
        DoAssign(frame_idx, dets)

NextScenario == AssignScenario

SpecScenario == InitDefault /\ [][NextScenario]_vars

\* the manager after assign(0, [white bottle at (100,100)]) on a fresh one
AfterFrame0 ==
    [active   |-> << [gid |-> 0, cls |-> 0, bbox |-> <<99, 99, 101, 101>>,
                      center |-> <<100, 100>>, last_frame |-> 0] >>,
     inactive |-> <<>>, next_gid |-> 1, spawned |-> <<0>>]

\* the manager after the following assign(5, [black bottle at (120,110)])
AfterFrame5 ==
    [active   |-> << [gid |-> 0, cls |-> 0, bbox |-> <<119, 109, 121, 111>>,
                      center |-> <<120, 110>>, last_frame |-> 5] >>,
     inactive |-> <<>>, next_gid |-> 1, spawned |-> <<0>>]

(***************************************************************************)
(* C16.  With radius 240 and window 180, on a fresh IdentityManager:       *)
(* assign(0, [white bottle at (100,100)]) returns id 0; then               *)
(* assign(5, [black bottle at (120,110)]) returns id 0; then               *)
(* assign(400, [one detection at either of the two places]) returns the    *)
(* new id 1, and afterwards id 0 is in neither pool.                       *)
(***************************************************************************)
C16_BottleScenario ==
    /\ reid_max_radius_px = 240 /\ reid_max_frames = 180
    /\ ( /\ Called
         /\ call.pre = NoCall.pre
         /\ call.frame_idx = 0
         /\ call.dets = << Det(0, <<100, 100>>) >> )
       => (call.ret[1] = 0 /\ Manager = AfterFrame0)
    /\ ( /\ Called
         /\ call.pre = AfterFrame0
         /\ call.frame_idx = 5
         /\ call.dets = << Det(3, <<120, 110>>) >> )
       => (call.ret[1] = 0 /\ Manager = AfterFrame5)
    /\ ( /\ Called
         /\ call.pre = AfterFrame5
         /\ call.frame_idx = 400
         /\ Len(call.dets) = 1 )
       => /\ call.ret[1] = 1
          /\ next_gid = 2
          /\ 0 \notin Gids(active) \cup Gids(inactive)

\* the third call of the scenario has returned: a black bottle at the place
\* of the track, 395 frames after the track was last seen
C16_Witness ==
    /\ Called
    /\ call.pre = AfterFrame5
    /\ call.frame_idx = 400
    /\ call.dets = << Det(3, <<120, 110>>) >>
    /\ call.ret[1] = 1

(***************************************************************************)
(* Track smoother (src/app/ultralytics/yoloe_rt_smoothed.py).              *)
(*                                                                         *)
(* Positions are integers: pixels in the pixel stream, centimetres in the  *)
(* world stream.  The source computes in floating point; the model  *)
(* computes the same expressions exactly and marks a call `exact` only     *)
(* when every intermediate value stays on the integer grid and the average *)
(* direction is parallel to an axis.  The actions take exact calls only.   *)
(* An absent value (None) is the empty sequence, a present number v is     *)
(* the sequence <<v>>.                                                     *)
(***************************************************************************)
\* SMOOTH_HISTORY_FRAMES
SMOOTH_HISTORY_FRAMES == 10
\* SMOOTH_PENALTY = 0.65, in hundredths
SMOOTH_PENALTY == 65
\* GAP_RESET_FRAMES
GAP_RESET_FRAMES == 60
\* TELEPORT_THRESH_PX = 300.0, in pixels
TELEPORT_THRESH_PX == 300
\* TELEPORT_THRESH_M = 1.5 metres, in centimetres
TELEPORT_THRESH_M == 150

\* the last entry q[-1] of a history
Newest(q) == q[Len(q)]

\* mutant: the history survives a gap of exactly GAP_RESET_FRAMES
gap_reached_late(gap) == gap > GAP_RESET_FRAMES

\* (frame_idx - q[-1][0]) >= GAP_RESET_FRAMES
gap_reached(gap) == gap >= GAP_RESET_FRAMES

\* mutant: a jump of exactly the threshold resets as well
jump_reaches_thresh(dx, dy, teleport_thresh) ==
    dx * dx + dy * dy >= teleport_thresh * teleport_thresh

\* math.hypot(x - px, y - py) > teleport_thresh
jump_exceeds_thresh(dx, dy, teleport_thresh) ==
    dx * dx + dy * dy > teleport_thresh * teleport_thresh

\* mutant: the deque has no maxlen
deque_append_unbounded(q, e, maxlen) == Append(q, e)

\* deque.append(e) on a deque of the given maxlen: a full deque drops its
\* oldest entry
deque_append(q, e, maxlen) ==
    IF Len(q) >= maxlen THEN Append(Tail(q), e) ELSE Append(q, e)

sign(v) == IF v > 0 THEN 1 ELSE IF v < 0 THEN -1 ELSE 0

\* The loop of _avg_dir_2d over pts from position i on: vec is the sum of
\* the unit vectors of the non-zero deltas; exact is lost on a delta that
\* is not parallel to an axis.
RECURSIVE dir_sum(_, _, _)
dir_sum(pts, i, acc) ==
    IF i > Len(pts) THEN acc
    ELSE LET dx == pts[i][2] - pts[i - 1][2]
             dy == pts[i][3] - pts[i - 1][3]
         IN  IF dx # 0 /\ dy # 0
             THEN dir_sum(pts, i + 1, [acc EXCEPT !.exact = FALSE])
             ELSE dir_sum(pts, i + 1,
                     [acc EXCEPT !.vec = <<@[1] + sign(dx), @[2] + sign(dy)>>])

\* _avg_dir_2d(q): found = FALSE for None
avg_dir_2d(q) ==
    IF Len(q) < 2 THEN [found |-> FALSE, d |-> <<0, 0>>, exact |-> TRUE]
    ELSE LET from == IF Len(q) > SMOOTH_HISTORY_FRAMES
                     THEN Len(q) - SMOOTH_HISTORY_FRAMES + 1 ELSE 1
             pts  == SubSeq(q, from, Len(q))
             s    == dir_sum(pts, 2, [vec |-> <<0, 0>>, exact |-> TRUE])
         IN  IF s.vec = <<0, 0>>
                 THEN [found |-> FALSE, d |-> <<0, 0>>, exact |-> s.exact]
             ELSE [found |-> TRUE,
                   d     |-> <<sign(s.vec[1]), sign(s.vec[2])>>,
                   exact |-> s.exact /\ (s.vec[1] = 0 \/ s.vec[2] = 0)]

\* hist_map[gid] = q
hist_put(hist_map, gid, q) ==
    [g \in DOMAIN hist_map \cup {gid} |-> IF g = gid THEN q ELSE hist_map[g]]

\* the history of gid after the gap test and the teleport test of
\* _smooth_point (q.clear() empties it)
after_resets(q, frame_idx, x, y, teleport_thresh) ==
    LET q1 == IF q # <<>> /\ gap_reached(frame_idx - Newest(q)[1])
              THEN <<>> ELSE q
    IN  IF q1 # <<>> /\ jump_exceeds_thresh(x - Newest(q1)[2], y - Newest(q1)[3],
                                           teleport_thresh)
        THEN <<>> ELSE q1

\* mutant: the step is taken in full (alpha = 1)
ema_step_full(px, py, vx, vy) ==
    [exact |-> TRUE, sx |-> px + vx, sy |-> py + vy]

\* "mild EMA towards raw": alpha = 0.5
ema_step(px, py, vx, vy) ==
    [exact |-> vx % 2 = 0 /\ vy % 2 = 0,
     sx    |-> px + vx \div 2,
     sy    |-> py + vy \div 2]

\* mutant: the perpendicular component is not attenuated
unpenalized(c) == c

\* c * (1.0 - SMOOTH_PENALTY)
penalized(c) == (c * (100 - SMOOTH_PENALTY)) \div 100

\* the direction-weighted step for a unit direction d
dir_step(px, py, vx, vy, d) ==
    LET v_par_mag == vx * d[1] + vy * d[2]
        v_par     == <<d[1] * v_par_mag, d[2] * v_par_mag>>
        v_perp    == <<vx - v_par[1], vy - v_par[2]>>
    IN  [exact |-> /\ (v_perp[1] * (100 - SMOOTH_PENALTY)) % 100 = 0
                   /\ (v_perp[2] * (100 - SMOOTH_PENALTY)) % 100 = 0,
         sx    |-> px + v_par[1] + penalized(v_perp[1]),
         sy    |-> py + v_par[2] + penalized(v_perp[2])]

\* _smooth_point(gid, frame_idx, raw_pt, hist_map, teleport_thresh): the
\* returned point and hist_map afterwards
smooth_point(gid, frame_idx, raw_pt, hist_map, teleport_thresh) ==
    LET x  == raw_pt[1]
        y  == raw_pt[2]
        q0 == IF gid \in DOMAIN hist_map THEN hist_map[gid] ELSE <<>>
        q  == after_resets(q0, frame_idx, x, y, teleport_thresh)
    IN  IF q = <<>>
        THEN [exact |-> TRUE, out |-> <<x, y>>,
              hist |-> hist_put(hist_map, gid, << <<frame_idx, x, y>> >>)]
        ELSE LET px == Newest(q)[2]
                 py == Newest(q)[3]
                 d  == avg_dir_2d(q)
                 s  == IF d.found THEN dir_step(px, py, x - px, y - py, d.d)
                       ELSE ema_step(px, py, x - px, y - py)
             IN  [exact |-> d.exact /\ s.exact,
                  out   |-> <<s.sx, s.sy>>,
                  hist  |-> hist_put(hist_map, gid,
                               deque_append(q, <<frame_idx, s.sx, s.sy>>,
                                            SMOOTH_HISTORY_FRAMES + 2))]

\* smooth_px(gid, frame_idx, cx, cy)
smooth_px(gid, frame_idx, cx, cy, sm) ==
    LET r == smooth_point(gid, frame_idx, <<cx, cy>>, sm.hist_px,
                          TELEPORT_THRESH_PX)
    IN  [exact |-> r.exact, out |-> r.out,
         hist_px |-> r.hist, hist_w |-> sm.hist_w]

\* mutant: an absent coordinate is taken as 0
smooth_world_absent_as_zero(gid, frame_idx, Xw, Yw, sm) ==
    LET X == IF Xw = Absent THEN 0 ELSE Xw[1]
        Y == IF Yw = Absent THEN 0 ELSE Yw[1]
        r == smooth_point(gid, frame_idx, <<X, Y>>, sm.hist_w, TELEPORT_THRESH_M)
    IN  [exact |-> r.exact, out |-> <<Present(r.out[1]), Present(r.out[2])>>,
         hist_px |-> sm.hist_px, hist_w |-> r.hist]

\* smooth_world(gid, frame_idx, Xw, Yw)
smooth_world(gid, frame_idx, Xw, Yw, sm) ==
    IF Xw = Absent \/ Yw = Absent
    THEN [exact |-> TRUE, out |-> <<Xw, Yw>>,
          hist_px |-> sm.hist_px, hist_w |-> sm.hist_w]
    ELSE LET r == smooth_point(gid, frame_idx, <<Xw[1], Yw[1]>>, sm.hist_w,
                               TELEPORT_THRESH_M)
         IN  [exact |-> r.exact,
              out |-> <<Present(r.out[1]), Present(r.out[2])>>,
              hist_px |-> sm.hist_px, hist_w |-> r.hist]

(***************************************************************************)
(* Smoother calls.                                                         *)
(***************************************************************************)
\* the smoother is not called when its histories would hold more than
\* MaxEntries entries altogether
MaxEntries == 3
\* frame indices passed to the smoother range over 0..MaxSmoothFrame
MaxSmoothFrame == 1

\* identities the smoother is called for
SmoothGids == {0, 1}

\* pixel centers: 300, 302 and 300 px away from the first
PxPoints == { <<0, 0>>, <<300, 0>>, <<302, 0>>, <<180, 240>> }

\* world positions in centimetres: 150, 152 and 150 cm away from the first
WorldPoints == { <<0, 0>>, <<150, 0>>, <<152, 0>>, <<90, 120>> }

\* the (Xw, Yw) pairs handed to smooth_world: a position, or one with an
\* absent coordinate
WorldRaws ==
    {<<Present(p[1]), Present(p[2])>> : p \in WorldPoints}
        \cup {<<Absent, Absent>>, <<Present(150), Absent>>, <<Absent, Present(0)>>}

Smoother == [hist_px |-> hist_px, hist_w |-> hist_w]

RECURSIVE entries_of(_)
entries_of(hist_map) ==
    IF DOMAIN hist_map = {} THEN 0
    ELSE LET g == CHOOSE k \in DOMAIN hist_map : TRUE
         IN  Len(hist_map[g])
               + entries_of([k \in DOMAIN hist_map \ {g} |-> hist_map[k]])

\* the frame indices a caller passes next for gid: not before the newest
\* entry of either history of gid
SmoothFrames(gid) ==
    {f \in 0..MaxSmoothFrame :
        /\ gid \in DOMAIN hist_px => f >= Newest(hist_px[gid])[1]
        /\ gid \in DOMAIN hist_w => f >= Newest(hist_w[gid])[1]}

\* one smoother call with result r
DoSmooth(op, gid, frame_idx, raw, r) ==
    /\ r.exact
    /\ entries_of(r.hist_px) + entries_of(r.hist_w) <= MaxEntries
    /\ hist_px' = r.hist_px
    /\ hist_w' = r.hist_w
    /\ scall' = [op |-> op, gid |-> gid, frame_idx |-> frame_idx, raw |-> raw,
                 out |-> r.out, pre |-> Smoother]
    /\ UNCHANGED <<active, inactive, next_gid, cls_group, session,
                   rt_frame_idx, spawned, call, other>>

SmoothPx ==
    \E gid \in SmoothGids : \E frame_idx \in SmoothFrames(gid), p \in PxPoints :
        \E r \in {smooth_px(gid, frame_idx, p[1], p[2], Smoother)} :
            DoSmooth("smooth_px", gid, frame_idx, p, r)

SmoothWorld ==
    \E gid \in SmoothGids : \E frame_idx \in SmoothFrames(gid), w \in WorldRaws :
        \E r \in {smooth_world(gid, frame_idx, w[1], w[2], Smoother)} :
            DoSmooth("smooth_world", gid, frame_idx, w, r)

NextSmoother == SmoothPx \/ SmoothWorld

SpecSmoother == Init /\ [][NextSmoother]_vars

\* the last smoother call was smooth_world with an absent coordinate
AbsentWorldCall ==
    /\ scall.op = "smooth_world"
    /\ (scall.raw[1] = Absent \/ scall.raw[2] = Absent)

(***************************************************************************)
(* C19.  If Xw or Yw is absent, smooth_world returns the pair it was given *)
(* unchanged and leaves every history, pixel and world, of this and of     *)
(* every other identity exactly as it was: no entry is created, appended   *)
(* or cleared.                                                             *)
(***************************************************************************)
C19_AbsentWorldLeavesState ==
    AbsentWorldCall =>
        /\ scall.out = scall.raw
        /\ hist_px = scall.pre.hist_px
        /\ hist_w = scall.pre.hist_w

\* Xw is present and Yw absent, for an identity that has a world history
\* while the other identity has none
C19_Witness ==
    /\ AbsentWorldCall
    /\ scall.raw = <<Present(150), Absent>>
    /\ scall.out = <<Present(150), Absent>>
    /\ DOMAIN scall.pre.hist_w = {scall.gid}
    /\ DOMAIN hist_w = {scall.gid}
    /\ scall.pre.hist_px # EmptyMap

\* the last smoother call was given a present raw position
PointCall ==
    \/ scall.op = "smooth_px"
    \/ scall.op = "smooth_world" /\ scall.raw[1] # Absent /\ scall.raw[2] # Absent

\* its raw position and its result as points
RawPoint ==
    IF scall.op = "smooth_px" THEN scall.raw
    ELSE <<scall.raw[1][1], scall.raw[2][1]>>

OutPoint ==
    IF scall.op = "smooth_px" THEN scall.out
    ELSE <<scall.out[1][1], scall.out[2][1]>>

\* the history map of the stream the call works on, before and after
StreamBefore == IF scall.op = "smooth_px" THEN scall.pre.hist_px ELSE scall.pre.hist_w

StreamAfter == IF scall.op = "smooth_px" THEN hist_px ELSE hist_w

\* the configured teleport threshold of that stream
StreamThresh == IF scall.op = "smooth_px" THEN TELEPORT_THRESH_PX ELSE TELEPORT_THRESH_M

\* the identity had a history, and the squared distance of the raw position
\* from its last smoothed output
HadHistory == PointCall /\ scall.gid \in DOMAIN StreamBefore

JumpSquared ==
    LET last == Newest(StreamBefore[scall.gid])
    IN  (RawPoint[1] - last[2]) * (RawPoint[1] - last[2])
          + (RawPoint[2] - last[3]) * (RawPoint[2] - last[3])

(***************************************************************************)
(* C20.  Teleport reset: if the raw position is farther than the stream's  *)
(* threshold from the identity's last smoothed output, the smoother        *)
(* returns exactly the raw position and the identity's history is the      *)
(* single entry (current frame, raw); at a distance equal to the threshold *)
(* the history is kept and the new output is appended to it.               *)
(***************************************************************************)
C20_TeleportReset ==
    HadHistory =>
        LET q == StreamBefore[scall.gid]
        IN  /\ JumpSquared > StreamThresh * StreamThresh =>
                  /\ OutPoint = RawPoint
                  /\ StreamAfter[scall.gid]
                        = << <<scall.frame_idx, RawPoint[1], RawPoint[2]>> >>
            /\ ( /\ JumpSquared = StreamThresh * StreamThresh
                 /\ scall.frame_idx - Newest(q)[1] < GAP_RESET_FRAMES ) =>
                  StreamAfter[scall.gid]
                      = Append(q, <<scall.frame_idx, OutPoint[1], OutPoint[2]>>)

\* a world position 152 cm from the last smoothed output of an identity
\* whose world history had two entries, and whose pixel history is intact
C20_Witness ==
    /\ HadHistory
    /\ scall.op = "smooth_world"
    /\ JumpSquared = 152 * 152
    /\ Len(StreamBefore[scall.gid]) = 2
    /\ Len(hist_w[scall.gid]) = 1
    /\ OutPoint = RawPoint
    /\ scall.gid \in DOMAIN hist_px

(***************************************************************************)
(* YoloeRealtime session (yoloe_rt_smoothed.py): process_frame feeds the   *)
(* detections of a frame to idman.assign under the session's frame         *)
(* counter, reset_ids starts over, and the session's smoother is called    *)
(* for the identities of the frame.                                        *)
(***************************************************************************)
\* process_frame is not called when the frame counter is beyond SessionLast
SessionLast == 1

\* the whole state of a YoloeRealtime
Realtime ==
    [active |-> active, inactive |-> inactive, next_gid |-> next_gid,
     cls_group |-> cls_group, session |-> session,
     rt_frame_idx |-> rt_frame_idx, hist_px |-> hist_px, hist_w |-> hist_w]

\* mutant: the reset of yoloe_rt.py, which knows no smoother
reset_ids_keeps_smoother(rt) ==
    [active |-> <<>>, inactive |-> <<>>, next_gid |-> 0,
     cls_group |-> build_cls_group(rt.session.classes, DEFAULT_CONTINUITY_GROUPS,
                                   1, EmptyMap, 0),
     session |-> [classes |-> rt.session.classes,
                  reid_max_radius_px |-> rt.session.reid_max_radius_px,
                  reid_max_frames |-> rt.session.reid_max_frames,
                  intrinsics |-> rt.session.intrinsics],
     rt_frame_idx |-> 0, hist_px |-> rt.hist_px, hist_w |-> rt.hist_w]

\* YoloeRealtime.reset_ids: a new IdentityManager over self.classes and
\* DEFAULT_CONTINUITY_GROUPS with the old radius and window, a new
\* _TrackSmoother, and frame_idx = 0
reset_ids(rt) ==
    [active |-> <<>>, inactive |-> <<>>, next_gid |-> 0,
     cls_group |-> build_cls_group(rt.session.classes, DEFAULT_CONTINUITY_GROUPS,
                                   1, EmptyMap, 0),
     session |-> [classes |-> rt.session.classes,
                  reid_max_radius_px |-> rt.session.reid_max_radius_px,
                  reid_max_frames |-> rt.session.reid_max_frames,
                  intrinsics |-> rt.session.intrinsics],
     rt_frame_idx |-> 0, hist_px |-> EmptyMap, hist_w |-> EmptyMap]

ResetIds ==
    \E rt \in {reset_ids(Realtime)} :
        /\ active' = rt.active
        /\ inactive' = rt.inactive
        /\ next_gid' = rt.next_gid
        /\ cls_group' = rt.cls_group
        /\ session' = rt.session
        /\ rt_frame_idx' = rt.rt_frame_idx
        /\ hist_px' = rt.hist_px
        /\ hist_w' = rt.hist_w
        /\ spawned' = <<>>
        /\ call' = [op |-> "reset_ids", frame_idx |-> 0, dets |-> <<>>,
                    ret |-> EmptyMap, pre |-> Realtime]
        /\ scall' = NoSmooth
        /\ UNCHANGED other

\* the frame is LocW x LocH pixels: cx = LocW / 2, cy = LocH / 2
LocW == 640

LocH == 480

\* "if self.fx is None": fx, fy, cx, cy are computed from the shape of the
\* first frame and the fixed fields of view, and kept from then on; the
\* model writes them as the W and H they are computed from
first_frame_intrinsics(sess, W, H) ==
    [sess EXCEPT !.intrinsics =
        IF @ = Absent THEN Present([W |-> W, H |-> H]) ELSE @]

\* process_frame on a non-empty frame of LocW x LocH pixels whose
\* detections are dets
DoProcessFrame(dets) ==
    \E st \in {assign(rt_frame_idx, dets, Manager)} :
        /\ rt_frame_idx <= SessionLast
        /\ st.next_gid <= MaxGid
        /\ active' = st.active
        /\ inactive' = st.inactive
        /\ next_gid' = st.next_gid
        /\ spawned' = st.spawned
        /\ call' = [op |-> "assign", frame_idx |-> rt_frame_idx,
                    dets |-> dets, ret |-> st.idx_to_gid, pre |-> Manager]
        /\ rt_frame_idx' = rt_frame_idx + 1
        /\ session' = first_frame_intrinsics(session, LocW, LocH)
        /\ UNCHANGED <<cls_group, hist_px, hist_w, scall, other>>

ProcessFrame ==
    \E dets \in DetLists({0}, PairPoints, MaxDets) : DoProcessFrame(dets)

\* a caller smooths the pixel center of identity 0 at the current frame
SessionSmoothPx ==
    \E p \in PairPoints :
        \E r \in {smooth_px(0, rt_frame_idx, p[1], p[2], Smoother)} :
            DoSmooth("smooth_px", 0, rt_frame_idx, p, r)

\* a caller smooths the world position of identity 0 at the current frame
SessionSmoothWorld ==
    \E w \in {<<Present(0), Present(0)>>, <<Absent, Absent>>} :
        \E r \in {smooth_world(0, rt_frame_idx, w[1], w[2], Smoother)} :
            DoSmooth("smooth_world", 0, rt_frame_idx, w, r)

NextSession ==
    ProcessFrame \/ ResetIds \/ SessionSmoothPx \/ SessionSmoothWorld

SpecSession == Init /\ [][NextSession]_vars

\* reset_ids was the last operation on the session
JustReset == call.op = "reset_ids" /\ scall = NoSmooth

(***************************************************************************)
(* C17.  Session reset is total: right after reset_ids, from whatever      *)
(* state, both pools are empty, the next id is 0, the frame counter is 0   *)
(* and every smoother history is empty; and the next frame processed after *)
(* a reset is given frame index 0 and its first detection the id 0.        *)
(***************************************************************************)
C17_ResetIsTotal ==
    /\ [](JustReset =>
            /\ active = <<>>
            /\ inactive = <<>>
            /\ next_gid = 0
            /\ rt_frame_idx = 0
            /\ hist_px = EmptyMap
            /\ hist_w = EmptyMap)
    /\ [][ (call.op = "reset_ids" /\ call'.op = "assign") =>
              /\ call'.frame_idx = 0
              /\ Len(call'.dets) >= 1 => call'.ret[1] = 0 ]_vars

\* a reset of a session that had an active and an inactive track, had
\* issued ids, had counted frames and held pixel and world histories
C17_Witness ==
    /\ JustReset
    /\ call.pre.active # <<>>
    /\ call.pre.inactive # <<>>
    /\ call.pre.next_gid >= 2
    /\ call.pre.rt_frame_idx >= 2
    /\ call.pre.hist_px # EmptyMap
    /\ call.pre.hist_w # EmptyMap
    /\ next_gid = 0

(***************************************************************************)
(* Two YoloeRealtime instances side by side.  The first one is held in     *)
(* the variables of the module, the second one in `other`.  Both are built *)
(* with the same arguments, and the operations of the second one are the   *)
(* operators of the first applied to its own state.                        *)
(***************************************************************************)
\* history entries each of the two sessions may hold
TwoEntries == 2

\* inputs of the two sessions
TwoPoints == { <<1, 1>> }

TwoPx == { <<0, 0>>, <<302, 0>> }

\* the IdentityManager of a session, as assign takes it
manager_of(rt) ==
    [active |-> rt.active, inactive |-> rt.inactive,
     next_gid |-> rt.next_gid, spawned |-> <<>>]

\* mutant: one smoother object for all sessions
smoother_of_first_session(rt) == Smoother

\* self.smoother of a session
smoother_of(rt) == [hist_px |-> rt.hist_px, hist_w |-> rt.hist_w]

\* the second session has the configuration the operators read
SameConfiguration ==
    /\ other.rt.session.classes = session.classes
    /\ other.rt.session.reid_max_radius_px = session.reid_max_radius_px
    /\ other.rt.session.reid_max_frames = session.reid_max_frames
    /\ other.rt.cls_group = cls_group

\* one operation of the second session, taking it to state rt
DoOther(rt, last) ==
    /\ SameConfiguration
    /\ other' = [rt |-> rt, last |-> last]
    /\ UNCHANGED <<active, inactive, next_gid, cls_group, session, rt_frame_idx,
                   hist_px, hist_w, spawned, call, scall>>

OtherProcessFrame ==
    \E dets \in DetLists({0}, TwoPoints, 1) :
        \E st \in {assign(other.rt.rt_frame_idx, dets, manager_of(other.rt))} :
            /\ other.rt.rt_frame_idx <= SessionLast
            /\ st.next_gid <= MaxGid
            /\ DoOther([other.rt EXCEPT !.active = st.active,
                                        !.inactive = st.inactive,
                                        !.next_gid = st.next_gid,
                                        !.rt_frame_idx = @ + 1,
                                        !.session =
                                            first_frame_intrinsics(@, LocW, LocH)],
                       [op |-> "assign", frame_idx |-> other.rt.rt_frame_idx,
                        dets |-> dets, ret |-> st.idx_to_gid, pre |-> other.rt])

OtherResetIds ==
    DoOther(reset_ids(other.rt), [op |-> "reset_ids", pre |-> other.rt])

OtherSmoothPx ==
    \E p \in TwoPx :
        \E r \in {smooth_px(0, other.rt.rt_frame_idx, p[1], p[2],
                            smoother_of(other.rt))} :
            /\ r.exact
            /\ entries_of(r.hist_px) + entries_of(r.hist_w) <= TwoEntries
            /\ DoOther([other.rt EXCEPT !.hist_px = r.hist_px,
                                        !.hist_w = r.hist_w],
                       [op |-> "smooth_px", gid |-> 0,
                        frame_idx |-> other.rt.rt_frame_idx, raw |-> p,
                        out |-> r.out, pre |-> other.rt])

\* the first session on the inputs of the second
TwoProcessFrame ==
    \E dets \in DetLists({0}, TwoPoints, 1) : DoProcessFrame(dets)

TwoSmoothPx ==
    \E p \in TwoPx :
        \E r \in {smooth_px(0, rt_frame_idx, p[1], p[2], Smoother)} :
            /\ entries_of(r.hist_px) + entries_of(r.hist_w) <= TwoEntries
            /\ DoSmooth("smooth_px", 0, rt_frame_idx, p, r)

NextTwo ==
    \/ TwoProcessFrame
    \/ ResetIds
    \/ TwoSmoothPx
    \/ OtherProcessFrame
    \/ OtherResetIds
    \/ OtherSmoothPx

SpecTwo == Init /\ [][NextTwo]_vars

\* what the last operation of the second session makes of the state it found
AloneAfter(last) ==
    IF last.op = "assign"
    THEN LET st == assign(last.frame_idx, last.dets, manager_of(last.pre))
         IN  [rt  |-> [last.pre EXCEPT !.active = st.active,
                                       !.inactive = st.inactive,
                                       !.next_gid = st.next_gid,
                                       !.rt_frame_idx = @ + 1,
                                       !.session =
                                           first_frame_intrinsics(@, LocW, LocH)],
              ret |-> st.idx_to_gid]
    ELSE IF last.op = "smooth_px"
    THEN LET r == smooth_px(last.gid, last.frame_idx, last.raw[1], last.raw[2],
                            [hist_px |-> last.pre.hist_px,
                             hist_w |-> last.pre.hist_w])
         IN  [rt  |-> [last.pre EXCEPT !.hist_px = r.hist_px,
                                       !.hist_w = r.hist_w],
              ret |-> r.out]
    ELSE [rt  |-> [last.pre EXCEPT !.active = <<>>, !.inactive = <<>>,
                                   !.next_gid = 0, !.rt_frame_idx = 0,
                                   !.hist_px = EmptyMap, !.hist_w = EmptyMap],
          ret |-> <<>>]

\* what the last operation of the second session returned
OtherReturned ==
    IF other.last.op = "assign" THEN other.last.ret
    ELSE IF other.last.op = "smooth_px" THEN other.last.out
    ELSE <<>>

GapFrames == {0, GAP_RESET_FRAMES - 1, GAP_RESET_FRAMES, 2 * GAP_RESET_FRAMES - 1}

GapPoints == { <<0, 0>>, <<8, 0>> }

\* frame indices of GapFrames not before the newest entry of gid
GapFramesFor(gid) ==
    {f \in GapFrames :
        /\ gid \in DOMAIN hist_px => f >= Newest(hist_px[gid])[1]
        /\ gid \in DOMAIN hist_w => f >= Newest(hist_w[gid])[1]}

GapSmoothPx ==
    \E gid \in SmoothGids : \E frame_idx \in GapFramesFor(gid), p \in GapPoints :
        \E r \in {smooth_px(gid, frame_idx, p[1], p[2], Smoother)} :
            DoSmooth("smooth_px", gid, frame_idx, p, r)

GapSmoothWorld ==
    \E gid \in SmoothGids : \E frame_idx \in GapFramesFor(gid), p \in GapPoints :
        \E r \in {smooth_world(gid, frame_idx, Present(p[1]), Present(p[2]),
                               Smoother)} :
            DoSmooth("smooth_world", gid, frame_idx,
                     <<Present(p[1]), Present(p[2])>>, r)

NextGap == GapSmoothPx \/ GapSmoothWorld

SpecGap == Init /\ [][NextGap]_vars

\* frames between the newest entry of the identity's history and the call
GapOfCall == scall.frame_idx - Newest(StreamBefore[scall.gid])[1]

(***************************************************************************)
(* C21.  Gap reset and first observation: if the identity has no history,  *)
(* or its newest history entry is GAP_RESET_FRAMES or more frames older    *)
(* than the frame index of the call, the smoother returns the raw position *)
(* exactly and the identity's history is afterwards the single entry       *)
(* (current frame, raw); with a gap of GAP_RESET_FRAMES - 1 (and no        *)
(* teleport) the history is kept and the new output appended to it.        *)
(***************************************************************************)
C21_GapReset ==
    PointCall =>
        /\ (~HadHistory \/ GapOfCall >= GAP_RESET_FRAMES) =>
              /\ OutPoint = RawPoint
              /\ StreamAfter[scall.gid]
                    = << <<scall.frame_idx, RawPoint[1], RawPoint[2]>> >>
        /\ ( /\ HadHistory
             /\ GapOfCall = GAP_RESET_FRAMES - 1
             /\ JumpSquared <= StreamThresh * StreamThresh ) =>
              StreamAfter[scall.gid]
                  = Append(StreamBefore[scall.gid],
                           <<scall.frame_idx, OutPoint[1], OutPoint[2]>>)

\* a call exactly GAP_RESET_FRAMES frames after the newest of two entries,
\* with a raw position 8 px from the last output: filtering would have
\* moved it
C21_Witness ==
    /\ HadHistory
    /\ scall.op = "smooth_px"
    /\ GapOfCall = GAP_RESET_FRAMES
    /\ Len(StreamBefore[scall.gid]) = 2
    /\ JumpSquared = 64
    /\ OutPoint = RawPoint
    /\ Len(hist_px[scall.gid]) = 1

(***************************************************************************)
(* Smoother calls on short steps, where neither reset fires.               *)
(***************************************************************************)
EmaPoints == { <<0, 0>>, <<10, 0>>, <<10, 10>> }

EmaSmoothPx ==
    \E gid \in SmoothGids : \E frame_idx \in SmoothFrames(gid), p \in EmaPoints :
        \E r \in {smooth_px(gid, frame_idx, p[1], p[2], Smoother)} :
            DoSmooth("smooth_px", gid, frame_idx, p, r)

EmaSmoothWorld ==
    \E gid \in SmoothGids : \E frame_idx \in SmoothFrames(gid), p \in EmaPoints :
        \E r \in {smooth_world(gid, frame_idx, Present(p[1]), Present(p[2]),
                               Smoother)} :
            DoSmooth("smooth_world", gid, frame_idx,
                     <<Present(p[1]), Present(p[2])>>, r)

NextEma == EmaSmoothPx \/ EmaSmoothWorld

SpecEma == Init /\ [][NextEma]_vars

\* the previous smoothed position of the identity
PrevPoint ==
    <<Newest(StreamBefore[scall.gid])[2], Newest(StreamBefore[scall.gid])[3]>>

\* the call found a history and neither the gap reset nor the teleport
\* reset fired
NoResetFired ==
    /\ HadHistory
    /\ GapOfCall < GAP_RESET_FRAMES
    /\ JumpSquared <= StreamThresh * StreamThresh

\* every entry of the identity's history is at one position: there is no
\* recent motion to take a direction from
NoMotionYet ==
    \A i \in 1..Len(StreamBefore[scall.gid]) :
        /\ StreamBefore[scall.gid][i][2] = PrevPoint[1]
        /\ StreamBefore[scall.gid][i][3] = PrevPoint[2]

C23_ReportedDetectionsAreSmoothed ==
    [][ (call'.op = "assign" /\ rt_frame_idx' = rt_frame_idx + 1) =>
            \A i \in 1..Len(call'.ret) :
                /\ call'.ret[i] \in DOMAIN hist_px'
                /\ Newest(hist_px'[call'.ret[i]])[1] = call'.frame_idx ]_vars

(***************************************************************************)
(* Camera / 3D localizer (src/app/ultralytics/yoloe_rt.py, lines 74-115)   *)
(* and the records process_frame emits.                                    *)
(*                                                                         *)
(* Lengths are in millimetres.  The source computes in floating point; the *)
(* model computes the same expressions over the rationals, a number being  *)
(* the pair <<numerator, denominator>> in lowest terms with a positive     *)
(* denominator.  Pixel abscissae that the source halves (u, cx, cy) are    *)
(* carried doubled: u2 = 2u = x1 + x2, cx2 = 2cx = W, cy2 = 2cy = H.  The  *)
(* rotation is modelled for pitch angles that are multiples of 90 degrees, *)
(* whose matrices are integral.  A dict is a function on its keys.         *)
(***************************************************************************)
\* DEFAULT_OBJ_HEIGHTS_M, in millimetres
DEFAULT_OBJ_HEIGHTS_M ==
    [label \in {"white bottle", "black bottle", "paper sign in hand",
                "paper air plane", "paper airplane in hand"} |->
        IF label \in {"black bottle", "paper sign in hand"} THEN 200 ELSE 150]

abs(v) == IF v < 0 THEN -v ELSE v

RECURSIVE gcd(_, _)
gcd(a, b) == IF b = 0 THEN a ELSE gcd(b, a % b)

\* the number n / d (d # 0)
rat(n, d) ==
    LET g == gcd(abs(n), abs(d))
        s == IF d < 0 THEN -1 ELSE 1
    IN  <<(s * n) \div g, (s * d) \div g>>

radd(a, b) ==
    IF a[1] = 0 THEN b
    ELSE IF b[1] = 0 THEN a
    ELSE rat(a[1] * b[2] + b[1] * a[2], a[2] * b[2])

\* an integer k times the number a
rscale(k, a) == IF k = 0 THEN <<0, 1>> ELSE rat(k * a[1], a[2])

\* label = classes[ci] if 0 <= ci < len(classes) else ""
label_of(classes, ci) ==
    IF 0 <= ci /\ ci < Len(classes) THEN classes[ci + 1] ELSE ""

\* _rot_x(deg) for deg a multiple of 90
rot_x(deg) ==
    LET q == (deg \div 90) % 4
        c == IF q = 0 THEN 1 ELSE IF q = 2 THEN -1 ELSE 0
        s == IF q = 1 THEN 1 ELSE IF q = 3 THEN -1 ELSE 0
    IN  << <<1, 0, 0>>, <<0, c, -s>>, <<0, s, c>> >>

max(a, b) == IF a >= b THEN a ELSE b

\* mutant: the pixel height is not floored
depth_unfloored(h_px, true_h_m, fy_px) ==
    IF h_px = 0 THEN <<0, 0>> ELSE rat(fy_px * true_h_m, h_px)

\* _depth_from_height_px(h_px, true_h_m, fy_px)
depth_from_height_px(h_px, true_h_m, fy_px) ==
    LET h == max(1, h_px)
    IN  rat(fy_px * true_h_m, h)

\* _cam_xy_from_pixel(u, v, Zc, fx_px, fy_px, cx, cy), with u, cx and cy
\* doubled
cam_xy_from_pixel(u2, v, Zc, fx_px, fy_px, cx2, cy2) ==
    << rat((u2 - cx2) * Zc[1], 2 * fx_px * Zc[2]),
       rat((2 * v - cy2) * Zc[1], 2 * fy_px * Zc[2]) >>

\* cam_pos_w + R_wc @ pc
to_world(R_wc, cam_pos_w, pc) ==
    [i \in 1..3 |->
        radd(<<cam_pos_w[i], 1>>,
             radd(rscale(R_wc[i][1], pc[1]),
                  radd(rscale(R_wc[i][2], pc[2]), rscale(R_wc[i][3], pc[3]))))]

\* mutant: a label without a configured height is given the height 0
estimate_3d_zero_height(bbox, label, fx_px, fy_px, cx2, cy2, R_wc, cam_pos_w, obj_heights) ==
    LET h_px   == max(1, bbox[4] - bbox[2])
        true_h == IF label \in DOMAIN obj_heights THEN obj_heights[label] ELSE 0
        Zc     == depth_from_height_px(h_px, true_h, fy_px)
        xy     == cam_xy_from_pixel(bbox[1] + bbox[3], bbox[4], Zc, fx_px, fy_px,
                                    cx2, cy2)
        pw     == to_world(R_wc, cam_pos_w, <<xy[1], xy[2], Zc>>)
    IN  [k \in {"Xc", "Yc", "Zc", "Xw", "Yw", "Zw"} |->
            IF k = "Xc" THEN xy[1] ELSE IF k = "Yc" THEN xy[2]
            ELSE IF k = "Zc" THEN Zc ELSE IF k = "Xw" THEN pw[1]
            ELSE IF k = "Yw" THEN pw[2] ELSE pw[3]]

\* _estimate_3d_for_bbox: the dict it returns
estimate_3d_for_bbox(bbox, label, fx_px, fy_px, cx2, cy2, R_wc, cam_pos_w, obj_heights) ==
    IF label \notin DOMAIN obj_heights THEN EmptyMap
    ELSE LET h_px   == max(1, bbox[4] - bbox[2])
             true_h == obj_heights[label]
             Zc     == depth_from_height_px(h_px, true_h, fy_px)
             xy     == cam_xy_from_pixel(bbox[1] + bbox[3], bbox[4], Zc,
                                         fx_px, fy_px, cx2, cy2)
             pw     == to_world(R_wc, cam_pos_w, <<xy[1], xy[2], Zc>>)
         IN  [k \in {"Xc", "Yc", "Zc", "Xw", "Yw", "Zw"} |->
                 IF k = "Xc" THEN xy[1] ELSE IF k = "Yc" THEN xy[2]
                 ELSE IF k = "Zc" THEN Zc ELSE IF k = "Xw" THEN pw[1]
                 ELSE IF k = "Yw" THEN pw[2] ELSE pw[3]]

\* coords.get(k, None)
coords_get(coords, k) ==
    IF k \in DOMAIN coords THEN Present(coords[k]) ELSE Absent

\* the record process_frame appends to json_list for one detection
json_obj(frame_idx, gid, label, bbox, coords) ==
    [frame |-> frame_idx, global_id |-> gid, label |-> label,
     x1 |-> bbox[1], y1 |-> bbox[2], x2 |-> bbox[3], y2 |-> bbox[4],
     cx2 |-> bbox[1] + bbox[3], cy2 |-> bbox[2] + bbox[4],
     Xc |-> coords_get(coords, "Xc"), Yc |-> coords_get(coords, "Yc"),
     Zc |-> coords_get(coords, "Zc"), Xw |-> coords_get(coords, "Xw"),
     Yw |-> coords_get(coords, "Yw"), Zw |-> coords_get(coords, "Zw")]

(***************************************************************************)
(* Localizer calls.                                                        *)
(***************************************************************************)
\* a class list with one class that has no configured height
LocClasses == Append(DEFAULT_CLASSES, "kite")

\* class indices a detection may carry, in and out of range
LocClassIdx == (0 - 1)..(Len(LocClasses) + 1)

\* boxes (x1, y1, x2, y2): 100 and 200 px high, and degenerate ones
LocBoxes ==
    {<<x1, y1, x2, y2>> : x1 \in {0, 300}, y1 \in {100, 200},
                          x2 \in {340, 640}, y2 \in {100, 200, 300}}

\* focal lengths in pixels
LocFocal == {350, 700}

\* camera pitch in degrees
LocPitch == {0, 90}

\* cam_height_m = 0.1, in millimetres
cam_height_m == 100

\* process_frame, for one detection: the label, the 3D estimate and the
\* emitted record
EstimateRecord ==
    \E bbox \in LocBoxes, ci \in LocClassIdx, f \in LocFocal,
       pitch \in LocPitch :
        LET label  == label_of(LocClasses, ci)
            coords == estimate_3d_for_bbox(bbox, label, f, f, LocW, LocH,
                          rot_x(0 - pitch), <<0, 0, cam_height_m>>,
                          DEFAULT_OBJ_HEIGHTS_M)
        IN  /\ call' = [op |-> "estimate", bbox |-> bbox, cls_idx |-> ci,
                        label |-> label, fx |-> f, fy |-> f, pitch |-> pitch,
                        coords |-> coords,
                        obj |-> json_obj(rt_frame_idx, 0, label, bbox, coords)]
            /\ UNCHANGED <<active, inactive, next_gid, cls_group, session,
                           rt_frame_idx, hist_px, hist_w, spawned, scall, other>>

\* _depth_from_height_px on a pixel height of any sign
Depth ==
    \E h_px \in {0 - 100, 0, 1, 100, 200}, true_h_m \in {150, 200},
       fy_px \in LocFocal :
        /\ call' = [op |-> "depth", h_px |-> h_px, true_h_m |-> true_h_m,
                    fy |-> fy_px,
                    ret |-> depth_from_height_px(h_px, true_h_m, fy_px)]
        /\ UNCHANGED <<active, inactive, next_gid, cls_group, session,
                       rt_frame_idx, hist_px, hist_w, spawned, scall, other>>

NextLocalizer == EstimateRecord \/ Depth

SpecLocalizer == Init /\ [][NextLocalizer]_vars

\* the six coordinates of the record emitted last
SixOfRecord ==
    {call.obj.Xc, call.obj.Yc, call.obj.Zc, call.obj.Xw, call.obj.Yw, call.obj.Zw}

(***************************************************************************)
(* C24.  The 3D estimate is all-or-nothing: for a label with no configured *)
(* height (the empty label of an out-of-range class index included) the    *)
(* estimate is empty and Xc, Yc, Zc, Xw, Yw, Zw of the emitted record are  *)
(* all absent; for a label with a configured height all six are present;   *)
(* no record has only some of the six.                                     *)
(***************************************************************************)
C24_EstimateAllOrNothing ==
    call.op = "estimate" =>
        /\ call.label \notin DOMAIN DEFAULT_OBJ_HEIGHTS_M =>
              /\ call.coords = EmptyMap
              /\ SixOfRecord = {Absent}
        /\ call.label \in DOMAIN DEFAULT_OBJ_HEIGHTS_M =>
              /\ DOMAIN call.coords = {"Xc", "Yc", "Zc", "Xw", "Yw", "Zw"}
              /\ Absent \notin SixOfRecord
        /\ (SixOfRecord = {Absent} \/ Absent \notin SixOfRecord)

\* a detection with an out-of-range class index: its label is empty and
\* its record carries no coordinate
C24_Witness ==
    /\ call.op = "estimate"
    /\ call.cls_idx = Len(LocClasses)
    /\ call.label = ""
    /\ SixOfRecord = {Absent}
    /\ call.obj.x2 > call.obj.x1
    /\ call.obj.y2 > call.obj.y1

\* the pixel height, the true height and the depth of the last localizer
\* call
CallHeightPx ==
    IF call.op = "depth" THEN call.h_px ELSE call.bbox[4] - call.bbox[2]

CallTrueHeight ==
    IF call.op = "depth" THEN call.true_h_m ELSE DEFAULT_OBJ_HEIGHTS_M[call.label]

CallDepth == IF call.op = "depth" THEN call.ret ELSE call.coords["Zc"]

\* the last call computed a depth
DepthComputed ==
    \/ call.op = "depth"
    \/ call.op = "estimate" /\ call.label \in DOMAIN DEFAULT_OBJ_HEIGHTS_M

(***************************************************************************)
(* C25.  Depth is Zc = fy * true_height / max(1, y2 - y1): with fy = 700,  *)
(* true height 0.2 m and a box 100 px high Zc is 1.4 m, with a box 200 px  *)
(* high it is 0.7 m; for a box of zero or negative height the pixel height *)
(* is floored at 1 and the depth is fy * true_height.                      *)
(***************************************************************************)
C25_DepthFromHeight ==
    DepthComputed =>
        /\ CallDepth[2] > 0
        /\ CallHeightPx >= 1 =>
              CallDepth[1] * CallHeightPx = call.fy * CallTrueHeight * CallDepth[2]
        /\ CallHeightPx <= 0 => CallDepth = <<call.fy * CallTrueHeight, 1>>
        /\ (call.fy = 700 /\ CallTrueHeight = 200) =>
              /\ CallHeightPx = 100 => CallDepth = <<1400, 1>>
              /\ CallHeightPx = 200 => CallDepth = <<700, 1>>

\* the estimate for an inverted box of a black bottle (0.2 m) at fy = 700:
\* the depth is 700 * 0.2 m = 140 m
C25_Witness ==
    /\ call.op = "estimate"
    /\ call.label = "black bottle"
    /\ call.fy = 700
    /\ call.bbox[4] < call.bbox[2]
    /\ call.obj.Zc = Present(<<140000, 1>>)

(***************************************************************************)
(* _parse_detections (yoloe_rt.py, lines 47-72): the boxes of the detector *)
(* are clamped to the frame and the degenerate ones dropped.  A raw        *)
(* detection is a record [box, cls].  Labels and masks are left out: the   *)
(* IdentityManager does not read them.  The frame and the raw coordinates  *)
(* are chosen so that every center (x1 + x2) * 0.5 is an integer.          *)
(***************************************************************************)
min(a, b) == IF a <= b THEN a ELSE b

\* x1 = max(0, x1); y1 = max(0, y1); x2 = min(W-1, x2); y2 = min(H-1, y2)
clamp_box(b, H, W) ==
    <<max(0, b[1]), max(0, b[2]), min(W - 1, b[3]), min(H - 1, b[4])>>

\* mutant: only inverted boxes are dropped, boxes of zero width or height
\* are kept
inverted_only(b) == b[3] < b[1] \/ b[4] < b[2]

\* x2 <= x1 or y2 <= y1
degenerate(b) == b[3] <= b[1] \/ b[4] <= b[2]

\* the loop of _parse_detections over the boxes from position i on
RECURSIVE parse_detections(_, _, _, _)
parse_detections(raws, H, W, i) ==
    IF i > Len(raws) THEN <<>>
    ELSE LET b == clamp_box(raws[i].box, H, W)
         IN  IF degenerate(b) THEN parse_detections(raws, H, W, i + 1)
             ELSE << [cls_idx |-> raws[i].cls,
                      bbox    |-> b,
                      center  |-> <<(b[1] + b[3]) \div 2, (b[2] + b[4]) \div 2>>] >>
                    \o parse_detections(raws, H, W, i + 1)

\* the frame is ParseH x ParseW pixels (H, W)
ParseH == 7

ParseW == 9

\* raw detections: inside the frame, reaching over its edges, outside of
\* it, of zero width, inverted, and one pixel column at the right edge
RawDets ==
    { [box |-> <<0, 0, 4, 4>>, cls |-> 0],
      [box |-> <<0 - 2, 0 - 2, 4, 4>>, cls |-> 0],
      [box |-> <<4, 2, 10, 8>>, cls |-> 1],
      [box |-> <<10, 0, 12, 4>>, cls |-> 0],
      [box |-> <<4, 0, 4, 4>>, cls |-> 0],
      [box |-> <<6, 4, 2, 0>>, cls |-> 1],
      [box |-> <<8, 0, 10, 4>>, cls |-> 0] }

\* the detector reports at most MaxRaw boxes for a frame
MaxRaw == 3

RawLists == UNION {[1..k -> RawDets] : k \in 0..MaxRaw}

\* process_frame on a frame for which the detector reports raws
ProcessRaw ==
    \E raws \in RawLists :
        \E dets \in {parse_detections(raws, ParseH, ParseW, 1)} :
            \E st \in {assign(rt_frame_idx, dets, Manager)} :
                /\ rt_frame_idx <= SessionLast
                /\ st.next_gid <= MaxGid
                /\ active' = st.active
                /\ inactive' = st.inactive
                /\ next_gid' = st.next_gid
                /\ spawned' = st.spawned
                /\ call' = [op |-> "assign", frame_idx |-> rt_frame_idx,
                            dets |-> dets, ret |-> st.idx_to_gid,
                            pre |-> Manager, raws |-> raws]
                /\ rt_frame_idx' = rt_frame_idx + 1
                /\ session' = first_frame_intrinsics(session, ParseW, ParseH)
                /\ UNCHANGED <<cls_group, hist_px, hist_w, scall, other>>

NextParse == ProcessRaw \/ ResetIds

SpecParse == Init /\ [][NextParse]_vars

\* the raw detections of the last frame that survive clamping, in the
\* order the detector reported them
KeptRaw(r) ==
    LET b == r.box
        x1 == IF b[1] < 0 THEN 0 ELSE b[1]
        y1 == IF b[2] < 0 THEN 0 ELSE b[2]
        x2 == IF b[3] > ParseW - 1 THEN ParseW - 1 ELSE b[3]
        y2 == IF b[4] > ParseH - 1 THEN ParseH - 1 ELSE b[4]
    IN  x1 < x2 /\ y1 < y2

(***************************************************************************)
(* C26.  Degenerate boxes never reach the identity manager: every          *)
(* detection handed to assign has, after clamping to the frame,            *)
(* 0 <= x1 < x2 <= W-1 and 0 <= y1 < y2 <= H-1; a box with x2 <= x1 or     *)
(* y2 <= y1 after clamping is dropped, and the remaining detections keep   *)
(* their relative order.                                                   *)
(***************************************************************************)
C26_NoDegenerateBoxes ==
    call.op = "assign" =>
        LET kept == SelectSeq(call.raws, KeptRaw)
        IN  /\ \A i \in 1..Len(call.dets) :
                  LET b == call.dets[i].bbox
                  IN  /\ 0 <= b[1] /\ b[1] < b[3] /\ b[3] <= ParseW - 1
                      /\ 0 <= b[2] /\ b[2] < b[4] /\ b[4] <= ParseH - 1
            /\ Len(call.dets) = Len(kept)
            /\ \A i \in 1..Len(kept) :
                  /\ call.dets[i].cls_idx = kept[i].cls
                  /\ call.dets[i].bbox = clamp_box(kept[i].box, ParseH, ParseW)
            /\ DOMAIN call.ret = 1..Len(kept)

\* a box of zero width between two boxes that reach over the frame: the
\* two are handed to assign clamped and in their order, the one is dropped
C26_Witness ==
    /\ call.op = "assign"
    /\ Len(call.raws) = 3
    /\ call.raws[1].box = <<4, 2, 10, 8>>
    /\ call.raws[2].box = <<4, 0, 4, 4>>
    /\ call.raws[3].box = <<0 - 2, 0 - 2, 4, 4>>
    /\ Len(call.dets) = 2
    /\ call.dets[1].bbox = <<4, 2, 8, 6>>
    /\ call.dets[2].bbox = <<0, 0, 4, 4>>

(***************************************************************************)
(* Construction of a session with configured classes and continuity        *)
(* groups.                                                                 *)
(***************************************************************************)
\* the class list of the configured sessions
GroupClasses == <<"white bottle", "black bottle", "paper air plane">>

\* the labels a continuity group may name: the three classes and one label
\* that is not in the class list
GroupLabels == {"white bottle", "black bottle", "paper air plane", "kite"}

\* at most MaxGroups continuity groups are configured
MaxGroups == 2

GroupLists == UNION {[1..k -> (SUBSET GroupLabels) \ {{}}] : k \in 0..MaxGroups}

\* YoloeRealtime(classes = GroupClasses, continuity_groups = groups): a new
\* session takes the place of the first one
Construct ==
    \E groups \in GroupLists :
        \E rt \in {NewRealtime(GroupClasses, groups, Radius, Window)} :
            /\ active' = rt.active
            /\ inactive' = rt.inactive
            /\ next_gid' = rt.next_gid
            /\ cls_group' = rt.cls_group
            /\ session' = rt.session
            /\ rt_frame_idx' = rt.rt_frame_idx
            /\ hist_px' = rt.hist_px
            /\ hist_w' = rt.hist_w
            /\ spawned' = <<>>
            /\ call' = [op |-> "construct", frame_idx |-> 0, dets |-> <<>>,
                        ret |-> EmptyMap, pre |-> Manager,
                        classes |-> GroupClasses, continuity_groups |-> groups]
            /\ scall' = NoSmooth
            /\ UNCHANGED other

NextGroups == Construct

SpecGroups == Init /\ [][NextGroups]_vars

\* the class indices of the configured class list that group k names
KnownMembers(k) ==
    {ci \in 0..(Len(call.classes) - 1) :
        call.classes[ci + 1] \in call.continuity_groups[k]}

\* the configured groups with at least 2 known member classes
Materialized ==
    {k \in 1..Len(call.continuity_groups) : Cardinality(KnownMembers(k)) >= 2}

(***************************************************************************)
(* C27.  Continuity-group construction materializes only groups with at    *)
(* least 2 known member classes: the classes that get a group id are       *)
(* exactly the known members of such groups (a label that is not in the    *)
(* class list gets none and does not count as a member), every group id    *)
(* stands for one such group, and a class that is in no such group is      *)
(* compatible only with itself.                                            *)
(***************************************************************************)
C27_OnlyGroupsOfTwo ==
    call.op = "construct" =>
        /\ DOMAIN cls_group = UNION {KnownMembers(k) : k \in Materialized}
        /\ \A ci \in DOMAIN cls_group :
              \E k \in Materialized :
                  /\ ci \in KnownMembers(k)
                  /\ \A cj \in KnownMembers(k) :
                        cj \in DOMAIN cls_group /\
                        (cls_group[cj] = cls_group[ci] \/
                            \E m \in Materialized : m > k /\ cj \in KnownMembers(m))
        /\ \A ci \in 0..(Len(call.classes) - 1) :
              ci \notin DOMAIN cls_group =>
                  \A cj \in 0..(Len(call.classes) - 1) :
                      same_continuity_class(ci, cj) <=> ci = cj

\* a group of one known class and one unknown label next to a group of two
\* known classes: the first is dropped, and its class is left alone
C27_Witness ==
    /\ call.op = "construct"
    /\ call.continuity_groups =
          << {"paper air plane", "kite"}, {"white bottle", "black bottle"} >>
    /\ DOMAIN cls_group = {0, 1}
    /\ cls_group[0] = cls_group[1]
    /\ ~same_continuity_class(2, 0)

(***************************************************************************)
(* get_clients (src/app/ultralytics/fetch_frame.py, lines 11-63).  The     *)
(* answer of the backend is a record: the request fails (no connection, a  *)
(* timeout, or an HTTP error status raised by raise_for_status), the body  *)
(* is not JSON, or the body is a JSON dict, list or other value.  In a     *)
(* dict, "success" and "error" may be missing (Absent), and "clients" is   *)
(* missing, null or a list.                                                *)
(***************************************************************************)
\* the client ids the backend knows
ClientIds == {"cam1", "cam2"}

\* the backend lists at most MaxClients clients
MaxClients == 3

ClientLists == UNION {[1..k -> ClientIds] : k \in 0..MaxClients}

\* the answers of the backend
Responses ==
    {[kind |-> k] : k \in {"request_failed", "http_error", "not_json", "number"}}
      \cup {[kind |-> "list", clients |-> l] : l \in ClientLists}
      \cup {[kind |-> "dict", success |-> s, error |-> e, clients |-> c] :
               s \in {Absent, Present(TRUE), Present(FALSE)},
               e \in {Absent, Present("backend down")},
               c \in {[is |-> "missing", v |-> <<>>], [is |-> "null", v |-> <<>>]}
                       \cup {[is |-> "list", v |-> l] : l \in ClientLists}}

\* the try block of get_clients: the exception it raises, or the list it
\* returns
get_clients_try(response) ==
    IF response.kind \in {"request_failed", "http_error"}
        THEN [raised |-> "RequestException", ret |-> <<>>]
    ELSE IF response.kind = "not_json"
        THEN [raised |-> "JSONDecodeError", ret |-> <<>>]
    ELSE IF response.kind = "dict"
        THEN IF response.success # Present(TRUE)
                 THEN [raised |-> "ValueError", ret |-> <<>>]
             ELSE IF response.clients.is = "missing"
                 THEN [raised |-> "none", ret |-> <<>>]
             ELSE IF response.clients.is = "null"
                 THEN [raised |-> "TypeError", ret |-> <<>>]
             ELSE [raised |-> "none", ret |-> response.clients.v]
    ELSE IF response.kind = "list"
        THEN [raised |-> "none", ret |-> response.clients]
    ELSE [raised |-> "none", ret |-> <<>>]

\* get_clients with its except clauses: RequestException, JSONDecodeError
\* and every other Exception are caught, and [] is returned
get_clients(response) ==
    LET t == get_clients_try(response)
    IN  IF t.raised = "none" THEN t ELSE [raised |-> "none", ret |-> <<>>]

GetClients ==
    \E response \in Responses :
        /\ call' = [op |-> "get_clients", response |-> response,
                    out |-> get_clients(response)]
        /\ UNCHANGED <<active, inactive, next_gid, cls_group, session,
                       rt_frame_idx, hist_px, hist_w, spawned, scall, other>>

NextClients == GetClients

SpecClients == Init /\ [][NextClients]_vars

(***************************************************************************)
(* C28.  get_clients raises requests.RequestException when the API request *)
(* fails and ValueError when the API response is invalid (a dict response  *)
(* whose success field is false or missing); otherwise it returns the list *)
(* of client ids.                                                          *)
(***************************************************************************)
C28_GetClientsRaises ==
    call.op = "get_clients" =>
        /\ call.response.kind \in {"request_failed", "http_error"} =>
              call.out.raised = "RequestException"
        /\ (call.response.kind = "dict" /\ call.response.success # Present(TRUE)) =>
              call.out.raised = "ValueError"
        /\ call.response.kind = "list" =>
              call.out = [raised |-> "none", ret |-> call.response.clients]

\* the squared distance of detection i to the nearest active record that is
\* eligible for it and unclaimed
UnclaimedDist2(i) ==
    LET k == First(Nearest(call.dets[i], call.pre.active, Unclaimed(i)))
    IN  center_dist2(call.dets[i].center, call.pre.active[k].center)

\* every active record claimed before detection i is farther from it than
\* its nearest unclaimed eligible record: a claimed record lies where one of
\* the earlier detections is
NearestIsUnclaimed(i) ==
    /\ Unclaimed(i) # {}
    /\ \A j \in 1..(i - 1) :
          center_dist2(call.dets[i].center, call.dets[j].center) > UnclaimedDist2(i)

\* an eligible inactive record is strictly nearer to detection i than every
\* unclaimed eligible active record
InactiveIsNearer(i) ==
    \E k \in EligibleIn(call.dets[i], call.pre.inactive, call.frame_idx) :
        center_dist2(call.dets[i].center, call.pre.inactive[k].center)
            < UnclaimedDist2(i)

FirstDet == call.dets[1]

FirstEligible(pool) == EligibleIn(FirstDet, pool, call.frame_idx)

(***************************************************************************)
(* C30.  _match_pool selects, among the pool records that pass the age and *)
(* continuity filters and lie within reid_max_radius_px, one at minimum    *)
(* center distance, the first in pool order on a tie; the bounds are       *)
(* inclusive (distance exactly reid_max_radius_px and age exactly          *)
(* reid_max_frames still match), while a record of age reid_max_frames + 1 *)
(* or of negative age never matches.  Stated for the first detection of a  *)
(* call, which meets both pools as the call found them.                    *)
(***************************************************************************)
C30_MatchPoolBounds ==
    (Called /\ Len(call.dets) >= 1) =>
        /\ call.ret[1] \in Gids(call.pre.active)
              <=> FirstEligible(call.pre.active) # {}
        /\ FirstEligible(call.pre.active) # {} =>
              call.ret[1] = FirstNearestGid(FirstDet, call.pre.active, call.frame_idx)
        /\ FirstEligible(call.pre.active) = {} =>
              /\ call.ret[1] \in Gids(call.pre.inactive)
                    <=> FirstEligible(call.pre.inactive) # {}
              /\ FirstEligible(call.pre.inactive) # {} =>
                    call.ret[1] = FirstNearestGid(FirstDet, call.pre.inactive,
                                                  call.frame_idx)
        /\ \A k \in 1..Len(PreRecs) :
              call.ret[1] = PreRecs[k].gid =>
                  /\ call.frame_idx - PreRecs[k].last_frame \in 0..reid_max_frames
                  /\ center_dist2(FirstDet.center, PreRecs[k].center)
                        <= reid_max_radius_px * reid_max_radius_px

\* the first detection is matched to an active record at exactly the radius
\* and of exactly the greatest age, while an inactive record on the very
\* spot of the detection has a negative age and is passed over
C30_Witness ==
    /\ Called
    /\ Len(call.dets) >= 1
    /\ \E k \in 1..Len(call.pre.active) :
          /\ call.ret[1] = call.pre.active[k].gid
          /\ call.frame_idx - call.pre.active[k].last_frame = reid_max_frames
          /\ center_dist2(FirstDet.center, call.pre.active[k].center)
                = reid_max_radius_px * reid_max_radius_px
    /\ \E k \in 1..Len(call.pre.inactive) :
          /\ call.pre.inactive[k].last_frame > call.frame_idx
          /\ call.pre.inactive[k].center = FirstDet.center

(***************************************************************************)
(* C31.  When assign(f, dets) returns, the ids of the active pool are      *)
(* exactly the ids returned for dets, one record per detection, and every  *)
(* active record has last_frame = f; after a frame with no detections the  *)
(* active pool is empty and next_gid is what it was.                       *)
(***************************************************************************)
C31_ActiveIsTheReturnedIds ==
    Called =>
        /\ Gids(active) = {call.ret[i] : i \in DOMAIN call.ret}
        /\ Len(active) = Len(call.dets)
        /\ \A k \in 1..Len(active) : active[k].last_frame = call.frame_idx
        /\ call.dets = <<>> => (active = <<>> /\ next_gid = call.pre.next_gid)

\* a frame with no detections empties an active pool of two records, and
\* ids had been spawned before
C31_Witness ==
    /\ Called
    /\ call.dets = <<>>
    /\ Len(call.pre.active) = 2
    /\ active = <<>>
    /\ next_gid = 2

\* a frame of two detections, one matched and one spawned, while a third
\* record leaves the active pool
C31_WitnessMixed ==
    /\ Called
    /\ Len(call.dets) = 2
    /\ Len(call.pre.active) = 2
    /\ Gids(active) \cap Gids(call.pre.active) # {}
    /\ Gids(call.pre.active) \ Gids(active) # {}
    /\ SpawnedAt # {}

\* the records of both pools now
Recs == active \o inactive

\* the record that holds gid in a sequence of records
RecOf(recs, gid) == recs[CHOOSE k \in 1..Len(recs) : recs[k].gid = gid]

(***************************************************************************)
(* C32.  A track keeps its class index: a spawned record has the class of  *)
(* the detection that spawned it, and no call changes the class of a       *)
(* record it finds in either pool, whether it matches it (also by a        *)
(* detection of another class of the same continuity group), revives it,   *)
(* demotes it or leaves it inactive.                                       *)
(***************************************************************************)
C32_ClassNeverChanges ==
    /\ [](Called =>
            \A i \in SpawnedAt :
                RecOf(active, call.ret[i]).cls = call.dets[i].cls_idx)
    /\ [][\A k \in 1..Len(Recs) :
            Recs[k].gid \in Gids(Recs') =>
                RecOf(Recs', Recs[k].gid).cls = Recs[k].cls]_vars

\* an inactive record of class "white bottle" is revived by a detection of
\* class "black bottle" and is still a white bottle
C32_Witness ==
    /\ Called
    /\ Len(call.dets) = 1
    /\ DEFAULT_CLASSES[call.dets[1].cls_idx + 1] = "black bottle"
    /\ call.ret[1] \in Gids(call.pre.inactive)
    /\ RecOf(call.pre.inactive, call.ret[1]).cls # call.dets[1].cls_idx
    /\ DEFAULT_CLASSES[RecOf(active, call.ret[1]).cls + 1] = "white bottle"

\* the class indices of the configured class list
KnownClasses == 0..(Len(call.classes) - 1)

\* _same_continuity_class is reflexive, symmetric and transitive on the
\* configured classes
CompatibilityIsEquivalence ==
    call.op = "construct" =>
        /\ \A a \in KnownClasses : same_continuity_class(a, a)
        /\ \A a, b \in KnownClasses :
              same_continuity_class(a, b) => same_continuity_class(b, a)
        /\ \A a, b, c \in KnownClasses :
              (same_continuity_class(a, b) /\ same_continuity_class(b, c))
                  => same_continuity_class(a, c)

(***************************************************************************)
(* C33.  For every list of configured continuity groups, also one in which *)
(* a label appears in more than one group, any two known classes listed    *)
(* together in a group with at least 2 known members are compatible with   *)
(* each other, and compatibility is reflexive, symmetric and transitive.   *)
(***************************************************************************)
C33_GroupedTogetherAreCompatible ==
    call.op = "construct" =>
        /\ \A k \in Materialized :
              \A a, b \in KnownMembers(k) : same_continuity_class(a, b)
        /\ CompatibilityIsEquivalence

(***************************************************************************)
(* Sessions with configured classes and continuity groups that process     *)
(* frames and are reset.                                                   *)
(***************************************************************************)
NextConfigured == Construct \/ ProcessFrame \/ ResetIds

SpecConfigured == Init /\ [][NextConfigured]_vars

(***************************************************************************)
(* C34.  reset_ids leaves the session configuration unchanged: the         *)
(* IdentityManager in force after the reset has the class list, the        *)
(* continuity groups, the radius and the window of the construction, so    *)
(* two classes are compatible after the reset exactly when they were       *)
(* before it.                                                              *)
(***************************************************************************)
C34_ResetKeepsConfiguration ==
    call.op = "reset_ids" =>
        /\ session = call.pre.session
        /\ cls_group = call.pre.cls_group
        /\ \A a, b \in 0..(Len(session.classes) - 1) :
              same_continuity_class(a, b)
                  <=> \/ a = b
                      \/ /\ a \in DOMAIN call.pre.cls_group
                         /\ b \in DOMAIN call.pre.cls_group
                         /\ call.pre.cls_group[a] = call.pre.cls_group[b]

\* what does hold: the class list, the radius, the window and the
\* intrinsics survive
ResetKeepsClassesRadiusWindow ==
    call.op = "reset_ids" => session = call.pre.session

(***************************************************************************)
(* process_frame as a whole (yoloe_rt.py, lines 266-335): the frame is     *)
(* None, an array of size 0, or an image of some shape for which the       *)
(* detector reports detections.                                            *)
(***************************************************************************)
\* the shapes (W, H) of the images
FrameShapes == { <<640, 480>>, <<320, 240>> }

\* the frames handed to process_frame; size is W * H
Frames ==
    {[kind |-> "none", size |-> 0, W |-> 0, H |-> 0, dets |-> <<>>],
     [kind |-> "array", size |-> 0, W |-> 640, H |-> 0, dets |-> <<>>]}
      \cup {[kind |-> "array", size |-> sh[1] * sh[2], W |-> sh[1],
             H |-> sh[2], dets |-> dets] :
               sh \in FrameShapes, dets \in DetLists({0}, PairPoints, MaxDets)}

\* mutant: only None is skipped
frame_is_none(frame) == frame.kind = "none"

\* frame_bgr is None or frame_bgr.size == 0
frame_is_skipped(frame) == frame.kind = "none" \/ frame.size = 0

\* json_list of process_frame: one record per detection, in input order
json_list(frame_idx, dets, idx_to_gid, classes) ==
    [i \in 1..Len(dets) |->
        json_obj(frame_idx, idx_to_gid[i], label_of(classes, dets[i].cls_idx),
                 dets[i].bbox, EmptyMap)]

\* mutant: the frame counter stands still
frame_idx_kept(frame_idx) == frame_idx

\* self.frame_idx += 1
frame_idx_advanced(frame_idx) == frame_idx + 1

\* process_frame(frame, return_vis): the early return, or the intrinsics of the first
\* frame, assign under self.frame_idx, the records, and frame_idx += 1
ProcessAnyFrame ==
    \E frame \in Frames, return_vis \in BOOLEAN :
        IF frame_is_skipped(frame)
        THEN /\ call' = [op |-> "skipped", frame_idx |-> rt_frame_idx,
                         dets |-> <<>>, ret |-> EmptyMap, pre |-> Manager,
                         frame |-> frame, json |-> <<>>, vis |-> Absent,
                         before |-> Realtime]
             /\ UNCHANGED <<active, inactive, next_gid, cls_group, session,
                            rt_frame_idx, hist_px, hist_w, spawned, scall,
                            other>>
        ELSE \E st \in {assign(rt_frame_idx, frame.dets, Manager)} :
                /\ rt_frame_idx <= SessionLast
                /\ st.next_gid <= MaxGid
                /\ active' = st.active
                /\ inactive' = st.inactive
                /\ next_gid' = st.next_gid
                /\ spawned' = st.spawned
                /\ call' = [op |-> "assign", frame_idx |-> rt_frame_idx,
                            dets |-> frame.dets, ret |-> st.idx_to_gid,
                            pre |-> Manager, frame |-> frame,
                            json |-> json_list(rt_frame_idx, frame.dets,
                                               st.idx_to_gid, session.classes),
                            vis |-> IF return_vis THEN Present("frame copy")
                                                  ELSE Absent,
                            before |-> Realtime]
                /\ rt_frame_idx' = frame_idx_advanced(rt_frame_idx)
                /\ session' = first_frame_intrinsics(session, frame.W, frame.H)
                /\ UNCHANGED <<cls_group, hist_px, hist_w, scall, other>>

NextFrame == ProcessAnyFrame \/ ResetIds \/ SessionSmoothPx

SpecFrame == Init /\ [][NextFrame]_vars

\* None, or an array of size 0
EmptyFrame(frame) == frame.kind = "none" \/ frame.size = 0

\* the last operation was process_frame on such a frame
EmptyFrameCall == call.op \in {"skipped", "assign"} /\ EmptyFrame(call.frame)

(***************************************************************************)
(* C35.  process_frame given a None or empty frame returns ([], None) and  *)
(* changes nothing: the frame counter is not advanced, assign is not       *)
(* called, and the pools, the next id, the intrinsics and the smoother     *)
(* state are exactly as before, so tracks do not age over such frames.     *)
(***************************************************************************)
C35_EmptyFrameChangesNothing ==
    [][ (call' # call /\ call'.op \in {"skipped", "assign"}
                     /\ EmptyFrame(call'.frame)) =>
            /\ call'.json = <<>>
            /\ call'.vis = Absent
            /\ call'.op = "skipped"
            /\ Realtime' = Realtime
            /\ call'.before = Realtime
            /\ spawned' = spawned
            /\ \A k \in 1..Len(active) :
                  rt_frame_idx' - active'[k].last_frame
                      = rt_frame_idx - active[k].last_frame ]_vars

\* an empty array reaches a session that holds a track seen one frame ago,
\* has its intrinsics and a pixel history
C35_Witness ==
    /\ EmptyFrameCall
    /\ call.frame.kind = "array"
    /\ Len(active) = 1
    /\ rt_frame_idx = 1
    /\ active[1].last_frame = 0
    /\ session.intrinsics # Absent
    /\ hist_px # EmptyMap
    /\ call.before = Realtime

(***************************************************************************)
(* C36.  Within a session the frame index passed to assign is 0 for the    *)
(* first frame processed after construction or reset and grows by exactly  *)
(* 1 per processed (non-empty) frame, so it is larger than the last_frame  *)
(* of every record assign finds, and every record emitted for the frame    *)
(* carries that index.                                                     *)
(***************************************************************************)
C36_FrameIndexCountsProcessedFrames ==
    /\ [](call.op \in {"init", "reset_ids"} => rt_frame_idx = 0)
    /\ [](call.op = "assign" =>
            /\ rt_frame_idx = call.frame_idx + 1
            /\ \A k \in 1..Len(PreRecs) : PreRecs[k].last_frame < call.frame_idx
            /\ Len(call.json) = Len(call.dets)
            /\ \A i \in 1..Len(call.json) : call.json[i].frame = call.frame_idx)
    /\ [][ (call' # call /\ call'.op = "assign") =>
              /\ call'.frame_idx = rt_frame_idx
              /\ call.op \in {"init", "reset_ids"} => call'.frame_idx = 0
              /\ call.op = "assign" => call'.frame_idx = call.frame_idx + 1 ]_vars

\* the second frame of a session: index 1, two records carrying it, and a
\* track of frame 0 in the pool
C36_Witness ==
    /\ call.op = "assign"
    /\ call.frame_idx = 1
    /\ Len(call.json) = 2
    /\ call.json[2].frame = 1
    /\ call.pre.active # <<>>
    /\ call.pre.active[1].last_frame = 0
    /\ call.before.session.intrinsics # Absent

(***************************************************************************)
(* A long stream: one identity is smoothed frame after frame, first its    *)
(* pixel center and then its world position, as a caller does for each     *)
(* detection of a frame, for more frames than a history holds entries.     *)
(***************************************************************************)
\* the stream runs over the frames 0..RingLast
RingLast == 13

\* pixel centers and world positions of the stream
RingPoints == { <<0, 0>>, <<10, 0>> }

\* the frame of the next smooth_px call
RingFrame == IF 0 \in DOMAIN hist_px THEN Newest(hist_px[0])[1] + 1 ELSE 0

\* the world position of the frame has been smoothed
WorldCaughtUp ==
    0 \in DOMAIN hist_px =>
        (0 \in DOMAIN hist_w /\ Newest(hist_w[0])[1] = Newest(hist_px[0])[1])

\* one smoother call of the stream with result r
DoRing(op, frame_idx, raw, r) ==
    /\ r.exact
    /\ hist_px' = r.hist_px
    /\ hist_w' = r.hist_w
    /\ scall' = [op |-> op, gid |-> 0, frame_idx |-> frame_idx, raw |-> raw,
                 out |-> r.out, pre |-> Smoother]
    /\ UNCHANGED <<active, inactive, next_gid, cls_group, session,
                   rt_frame_idx, spawned, call, other>>

RingSmoothPx ==
    \E p \in RingPoints :
        \E r \in {smooth_px(0, RingFrame, p[1], p[2], Smoother)} :
            /\ WorldCaughtUp
            /\ RingFrame <= RingLast
            /\ DoRing("smooth_px", RingFrame, p, r)

RingSmoothWorld ==
    \E r \in {smooth_world(0, RingFrame - 1, Present(0), Present(0), Smoother)} :
        /\ ~WorldCaughtUp
        /\ DoRing("smooth_world", RingFrame - 1, <<Present(0), Present(0)>>, r)

NextRing == RingSmoothPx \/ RingSmoothWorld

SpecRing == Init /\ [][NextRing]_vars

\* the frame indices of a history never decrease
FramesInOrder(q) == \A i, j \in 1..Len(q) : i <= j => q[i][1] <= q[j][1]

(***************************************************************************)
(* C37.  The rolling history is fixed-capacity: each identity's history in *)
(* each coordinate space holds at most SMOOTH_HISTORY_FRAMES + 2 entries,  *)
(* an append to a full history evicts its oldest entry, a history is       *)
(* non-empty after a call with a present raw position, and its frame       *)
(* indices are non-decreasing when the calls' frame indices are.           *)
(***************************************************************************)
C37_HistoryFixedCapacity ==
    /\ \A g \in DOMAIN hist_px :
          Len(hist_px[g]) <= SMOOTH_HISTORY_FRAMES + 2 /\ FramesInOrder(hist_px[g])
    /\ \A g \in DOMAIN hist_w :
          Len(hist_w[g]) <= SMOOTH_HISTORY_FRAMES + 2 /\ FramesInOrder(hist_w[g])
    /\ PointCall =>
          /\ scall.gid \in DOMAIN StreamAfter
          /\ StreamAfter[scall.gid] # <<>>
          /\ Newest(StreamAfter[scall.gid])
                = <<scall.frame_idx, OutPoint[1], OutPoint[2]>>
    /\ (NoResetFired /\ Len(StreamBefore[scall.gid]) = SMOOTH_HISTORY_FRAMES + 2) =>
          StreamAfter[scall.gid]
              = Append(Tail(StreamBefore[scall.gid]),
                       <<scall.frame_idx, OutPoint[1], OutPoint[2]>>)

\* the pixel history was full and its oldest entry has been evicted
C37_Witness ==
    /\ scall.op = "smooth_px"
    /\ NoResetFired
    /\ Len(scall.pre.hist_px[0]) = SMOOTH_HISTORY_FRAMES + 2
    /\ Len(hist_px[0]) = SMOOTH_HISTORY_FRAMES + 2
    /\ hist_px[0][1] = scall.pre.hist_px[0][2]
    /\ hist_px[0][1][1] = 1
    /\ Len(hist_w[0]) = SMOOTH_HISTORY_FRAMES + 2

(***************************************************************************)
(* Smoother calls and reset_gid.                                           *)
(***************************************************************************)
\* hist_map.pop(gid, None)
hist_pop(hist_map, gid) == [g \in DOMAIN hist_map \ {gid} |-> hist_map[g]]

\* mutant: every identity is forgotten
reset_gid_all(gid, sm) == [hist_px |-> EmptyMap, hist_w |-> EmptyMap]

\* reset_gid(gid); self.state is never written and stays empty
reset_gid(gid, sm) ==
    [hist_px |-> hist_pop(sm.hist_px, gid), hist_w |-> hist_pop(sm.hist_w, gid)]

ResetGid ==
    \E gid \in SmoothGids :
        \E sm \in {reset_gid(gid, Smoother)} :
            /\ hist_px' = sm.hist_px
            /\ hist_w' = sm.hist_w
            /\ scall' = [op |-> "reset_gid", gid |-> gid, pre |-> Smoother]
            /\ UNCHANGED <<active, inactive, next_gid, cls_group, session,
                           rt_frame_idx, spawned, call, other>>

NextPerIdentity == SmoothPx \/ SmoothWorld \/ ResetGid

SpecPerIdentity == Init /\ [][NextPerIdentity]_vars

\* the two history maps agree on every identity but gid
SameButFor(gid, before, after) ==
    /\ DOMAIN after \ {gid} = DOMAIN before \ {gid}
    /\ \A g \in DOMAIN before \ {gid} : after[g] = before[g]

(***************************************************************************)
(* C38.  Smoother state is kept per identity and per coordinate space:     *)
(* smooth_px for identity g changes only g's pixel history and             *)
(* smooth_world only g's world history, also when a gap or teleport reset  *)
(* fires; reset_gid(g) removes both histories of g, so that g's next       *)
(* observation is returned raw, and nothing of any other identity.         *)
(***************************************************************************)
C38_StatePerIdentityAndSpace ==
    /\ scall.op = "smooth_px" =>
          /\ hist_w = scall.pre.hist_w
          /\ SameButFor(scall.gid, scall.pre.hist_px, hist_px)
    /\ scall.op = "smooth_world" =>
          /\ hist_px = scall.pre.hist_px
          /\ SameButFor(scall.gid, scall.pre.hist_w, hist_w)
    /\ scall.op = "reset_gid" =>
          /\ scall.gid \notin DOMAIN hist_px \cup DOMAIN hist_w
          /\ SameButFor(scall.gid, scall.pre.hist_px, hist_px)
          /\ SameButFor(scall.gid, scall.pre.hist_w, hist_w)
    /\ (PointCall /\ scall.gid \notin DOMAIN StreamBefore) =>
          /\ OutPoint = RawPoint
          /\ StreamAfter[scall.gid]
                = << <<scall.frame_idx, RawPoint[1], RawPoint[2]>> >>

\* reset_gid of an identity that had a pixel and a world history, next to
\* an identity whose pixel history stays
C38_Witness ==
    /\ scall.op = "reset_gid"
    /\ scall.gid \in DOMAIN scall.pre.hist_px
    /\ scall.gid \in DOMAIN scall.pre.hist_w
    /\ hist_px # EmptyMap
    /\ hist_w = EmptyMap

\* a teleport reset of the pixel history of an identity whose world history
\* keeps its two entries
C38_WitnessTeleport ==
    /\ scall.op = "smooth_px"
    /\ HadHistory
    /\ JumpSquared > TELEPORT_THRESH_PX * TELEPORT_THRESH_PX
    /\ Len(hist_px[scall.gid]) = 1
    /\ scall.gid \in DOMAIN hist_w
    /\ Len(hist_w[scall.gid]) = 2

(***************************************************************************)
(* Smoother calls on steps along and across the direction of motion.       *)
(***************************************************************************)
\* after (0, 0) and (20, 0) the track stands at (10, 0) and moves along +x:
\* (30, 0) lies along the motion, (10, 20) across it, (30, 20) both
DirPoints == { <<0, 0>>, <<20, 0>>, <<30, 0>>, <<10, 20>>, <<30, 20>> }

DirSmoothPx ==
    \E gid \in SmoothGids : \E frame_idx \in SmoothFrames(gid), p \in DirPoints :
        \E r \in {smooth_px(gid, frame_idx, p[1], p[2], Smoother)} :
            DoSmooth("smooth_px", gid, frame_idx, p, r)

DirSmoothWorld ==
    \E gid \in SmoothGids : \E frame_idx \in SmoothFrames(gid), p \in DirPoints :
        \E r \in {smooth_world(gid, frame_idx, Present(p[1]), Present(p[2]),
                               Smoother)} :
            DoSmooth("smooth_world", gid, frame_idx,
                     <<Present(p[1]), Present(p[2])>>, r)

NextDir == DirSmoothPx \/ DirSmoothWorld

SpecDir == Init /\ [][NextDir]_vars

\* no reset fired and the identity has an average motion direction
HasDirection == NoResetFired /\ avg_dir_2d(StreamBefore[scall.gid]).found

\* that direction, the raw step from the last output, and its components
\* along and across the direction
AvgDir == avg_dir_2d(StreamBefore[scall.gid]).d

RawStep ==
    <<RawPoint[1] - PrevPoint[1], RawPoint[2] - PrevPoint[2]>>

StepAlong ==
    LET dot == RawStep[1] * AvgDir[1] + RawStep[2] * AvgDir[2]
    IN  <<AvgDir[1] * dot, AvgDir[2] * dot>>

StepAcross == <<RawStep[1] - StepAlong[1], RawStep[2] - StepAlong[2]>>

(***************************************************************************)
(* C39.  Direction-weighted step: when no reset fires and the identity has *)
(* an average motion direction d, the output is the last output plus the   *)
(* component of (raw - last output) parallel to d plus (1 - SMOOTH_PENALTY)*)
(* times the component perpendicular to d; a raw step exactly along d is   *)
(* passed through (output = raw) and a purely perpendicular step is scaled *)
(* by 1 - SMOOTH_PENALTY.  SMOOTH_PENALTY is in hundredths.                *)
(***************************************************************************)
C39_DirectionWeightedStep ==
    HasDirection =>
        /\ \A i \in 1..2 :
              100 * (OutPoint[i] - PrevPoint[i])
                  = 100 * StepAlong[i] + (100 - SMOOTH_PENALTY) * StepAcross[i]
        /\ StepAcross = <<0, 0>> => OutPoint = RawPoint
        /\ StepAlong = <<0, 0>> =>
              \A i \in 1..2 :
                  100 * (OutPoint[i] - PrevPoint[i])
                      = (100 - SMOOTH_PENALTY) * RawStep[i]

\* a track at (10, 0) moving along +x is given the raw position (30, 20):
\* the output is (30, 7)
C39_Witness ==
    /\ HasDirection
    /\ PrevPoint = <<10, 0>>
    /\ AvgDir = <<1, 0>>
    /\ RawPoint = <<30, 20>>
    /\ OutPoint = <<30, 7>>

\* the average unit direction over the last n deltas of a history, that is
\* over its last n + 1 entries (<<0, 0>> if there is none)
DirOverDeltas(q, n) ==
    LET from == IF Len(q) > n + 1 THEN Len(q) - n ELSE 1
        s    == dir_sum(SubSeq(q, from, Len(q)), 2,
                        [vec |-> <<0, 0>>, exact |-> TRUE])
    IN  <<sign(s.vec[1]), sign(s.vec[2])>>

\* the entry a call appends to the history is the raw position it was given
EntriesAreRaw ==
    PointCall =>
        Newest(StreamAfter[scall.gid])
            = <<scall.frame_idx, RawPoint[1], RawPoint[2]>>

\* the direction a call steers by is the average over the last
\* SMOOTH_HISTORY_FRAMES deltas of the history
DirectionOverNDeltas ==
    NoResetFired =>
        LET q == StreamBefore[scall.gid]
            d == DirOverDeltas(q, SMOOTH_HISTORY_FRAMES)
            s == IF d = <<0, 0>>
                 THEN ema_step(PrevPoint[1], PrevPoint[2],
                               RawPoint[1] - PrevPoint[1], RawPoint[2] - PrevPoint[2])
                 ELSE dir_step(PrevPoint[1], PrevPoint[2],
                               RawPoint[1] - PrevPoint[1], RawPoint[2] - PrevPoint[2], d)
        IN  OutPoint = <<s.sx, s.sy>>

\* what the code does: the direction is taken from the last
\* SMOOTH_HISTORY_FRAMES entries, that is SMOOTH_HISTORY_FRAMES - 1 deltas
DirectionOverNPoints ==
    NoResetFired =>
        LET q == StreamBefore[scall.gid]
            d == DirOverDeltas(q, SMOOTH_HISTORY_FRAMES - 1)
        IN  /\ avg_dir_2d(q).found <=> d # <<0, 0>>
            /\ avg_dir_2d(q).found => avg_dir_2d(q).d = d

(***************************************************************************)
(* C40.  The direction-weighted policy keeps a rolling window of the last  *)
(* N raw deltas (N = SMOOTH_HISTORY_FRAMES): the history entries it        *)
(* averages over are differences of successive raw input positions, and    *)
(* the average unit direction is computed from the N most recent of them.  *)
(***************************************************************************)
C40_WindowOfRawDeltas == EntriesAreRaw /\ DirectionOverNDeltas

=============================================================================
